---- MODULE Spec2Model ----
(***************************************************************************)
(* A model of the indy-credx handle registry (ffi/object.rs), of the FFI   *)
(* entry points built on it and of the prover service (services/prover.rs).*)
(*                                                                         *)
(* SpecReq  : prover::create_credential_request, statement by statement.   *)
(* SpecUnit : the helpers of create_presentation, each called on its own.  *)
(* SpecRev  : prover::create_or_update_revocation_state, called again and  *)
(*            again by a caller that keeps the states it returns.          *)
(* SpecVerify : credx_verify_presentation and                              *)
(*            credx_verify_presentation_legacy run side by side.           *)
(* SpecPres : prover::create_presentation and its helpers.                 *)
(* SpecFfi  : the extern "C" entry points, called by one thread; every     *)
(*            entry point is the sequence of its fallible steps.           *)
(* Spec     : the registry used by several threads.  The registry is a     *)
(*            BTreeMap behind a Mutex; an IndyObject is an                 *)
(*            Arc<dyn AnyIndyObject>, a fat pointer of two words (data     *)
(*            pointer, vtable pointer).  Map accesses are modelled word by *)
(*            word, so that their atomicity is a consequence of the lock   *)
(*            and not of the granularity of the model.                     *)
(***************************************************************************)
EXTENDS Integers, Sequences, FiniteSets, TLC

VARIABLES
    FFI_OBJECTS,         \* object.rs:17  handle -> [data, vtable]
    FFI_OBJECT_COUNTER,  \* object.rs:20  AtomicUsize
    lock,                \* owner of the Mutex of FFI_OBJECTS, or NoThread
    pc,                  \* per thread: position inside the current call
    cur,                 \* per thread: arguments and locals of the current call
    res,                 \* per thread: what the last completed call returned
    issued,              \* history: handle -> object passed to the create that drew it
    returned,            \* history: handles a create has returned
    removed,             \* history: handles a remove has succeeded on
    arcs,                \* the allocation Arc::new made for each handle:
                         \* its strong count and the value it owns
    call,                \* SpecFfi: the FFI call in progress
    out,                 \* SpecFfi: the cells behind the call's out-pointers
    ret,                 \* SpecFfi: the ErrorCode of the last FFI call
    req,                 \* SpecReq: frame of create_credential_request
    nonces,              \* SpecReq: the nonces in use so far
    pres,                \* SpecPres: frame of create_presentation
    trace,               \* SpecPres: calls to validate and to the proof builder
    ver,                 \* SpecVerify: the frames of the two verify entry points
    rev,                 \* SpecRev: frame of create_or_update_revocation_state
                         \*          and the states its caller holds
    unit                 \* SpecUnit: the last call of a helper of the prover

regVars == <<FFI_OBJECTS, FFI_OBJECT_COUNTER>>
thrVars == <<lock, pc, cur, res, issued, returned, removed, arcs>>
ffiVars == <<call, out, ret>>
reqVars == <<req, nonces>>
presVars == <<pres, trace>>
verVars == <<ver>>
revVars == <<rev>>
unitVars == <<unit>>
svcVars == <<reqVars, presVars, verVars, revVars, unitVars>>

vars == <<regVars, thrVars, ffiVars, svcVars>>

-----------------------------------------------------------------------------
(* Bounds *)

\* number of ObjectHandle::next calls explored (the counter is a usize; its
\* wrap-around after 2^64 increments is outside the bound)
MaxCreates == 2

Threads == {"t1", "t2"}
NoThread == "none"

\* the concrete types registered with impl_indy_object!
Types == {"CredentialRequest", "CredentialRequestMetadata"}
Values == {"v1", "v2"}
Unwritten == "?"

\* a value of type O handed to create, seen as the two words of the
\* Arc<dyn AnyIndyObject> that IndyObject::new builds for it
Objects == [data : Values, vtable : Types]
NoObject == [data |-> "-", vtable |-> "-"]

\* handles a caller can pass: 0, handles that exist, handles never created
Handles == 0 .. MaxCreates

-----------------------------------------------------------------------------
(* Results and errors *)

err_msg(msg) == [kind |-> "Input", msg |-> msg]
NoError == [kind |-> "-", msg |-> "-"]

Ok(v) == [ok |-> TRUE, val |-> v, err |-> NoError]
Err(e) == [ok |-> FALSE, val |-> NoObject, err |-> e]

InvalidHandle == err_msg("Invalid object handle")

-----------------------------------------------------------------------------
(* ObjectHandle: the operations on a registry whose lock is held *)

\* fetch_add(1, SeqCst) + 1: one atomic read-modify-write
ObjectHandle_next_NoPlusOne(counter) ==
    [handle |-> counter, counter |-> counter + 1]

ObjectHandle_next_NoIncrement(counter) ==
    [handle |-> counter + 1, counter |-> counter]

ObjectHandle_next(counter) ==
    [handle |-> counter + 1, counter |-> counter + 1]

\* Mutex::lock: the caller proceeds only when no thread holds the lock
LockIgnored == TRUE

LockAvailable == lock = NoThread

\* BTreeMap::insert, as the two word stores of the entry's value
insert_data(reg, h, o) ==
    [k \in (DOMAIN reg) \cup {h} |->
        IF k = h
        THEN [data |-> o.data,
              vtable |-> IF h \in DOMAIN reg THEN reg[h].vtable ELSE Unwritten]
        ELSE reg[k]]

insert_vtable(reg, h, o) ==
    [k \in (DOMAIN reg) \cup {h} |->
        IF k = h
        THEN [data |-> IF h \in DOMAIN reg THEN reg[h].data ELSE Unwritten,
              vtable |-> o.vtable]
        ELSE reg[k]]

insert(reg, h, o) == insert_vtable(insert_data(reg, h, o), h, o)

\* BTreeMap::get(..).cloned().ok_or_else(..)
load(reg, h) ==
    IF h \in DOMAIN reg THEN Ok(reg[h]) ELSE Err(InvalidHandle)

\* opt_load: Some(get(..).cloned().ok_or_else(..)).transpose(), or Ok(None)
opt_load_NoZeroCheck(reg, h) ==
    IF h \in DOMAIN reg THEN Ok(reg[h]) ELSE Err(InvalidHandle)

opt_load(reg, h) ==
    IF h # 0
    THEN (IF h \in DOMAIN reg THEN Ok(reg[h]) ELSE Err(InvalidHandle))
    ELSE Ok(NoObject)

\* BTreeMap::remove(..).ok_or_else(..): the new map and the result
remove_All(reg, h) ==
    [reg |-> << >>,
     result |-> IF h \in DOMAIN reg THEN Ok(reg[h]) ELSE Err(InvalidHandle)]

remove_KeepsEntry(reg, h) ==
    [reg |-> reg,
     result |-> IF h \in DOMAIN reg THEN Ok(reg[h]) ELSE Err(InvalidHandle)]

remove(reg, h) ==
    [reg |-> [k \in (DOMAIN reg) \ {h} |-> reg[k]],
     result |-> IF h \in DOMAIN reg THEN Ok(reg[h]) ELSE Err(InvalidHandle)]

\* IndyObject::cast_ref::<U>: the stored type id against TypeId::of::<U>()
cast_ref_Unchecked(obj, U) == Ok(obj)

cast_ref(obj, U) ==
    IF obj.vtable = U
    THEN Ok(obj)
    ELSE Err(err_msg("Expected instance, received other"))

-----------------------------------------------------------------------------
(* IndyObject(Arc<dyn AnyIndyObject>), object.rs:103-105: the allocation    *)
(* behind the pointer, named by the handle its create drew                  *)

Freed == "freed"

\* IndyObject::new, object.rs:108-111: Arc::new(value)
Arc_new(a, h, o) ==
    [k \in (DOMAIN a) \cup {h} |->
        IF k = h THEN [strong |-> 1, value |-> o] ELSE a[k]]

\* derive(Clone) of IndyObject, used by .cloned() at object.rs:45, without
\* the increment of the strong count: a pointer that owns nothing
Arc_clone_Borrowed(a, h) == a

\* derive(Clone) of IndyObject, used by .cloned() at object.rs:45
Arc_clone(a, h) ==
    IF h \in DOMAIN a
    THEN [a EXCEPT ![h].strong = @ + 1]
    ELSE a

\* an IndyObject goes out of scope: the value is freed with the last owner
Arc_drop(a, h) ==
    IF h \in DOMAIN a /\ a[h].strong > 0
    THEN [a EXCEPT ![h] = IF @.strong = 1
                          THEN [strong |-> 0, value |-> Freed]
                          ELSE [@ EXCEPT !.strong = @ - 1]]
    ELSE a

-----------------------------------------------------------------------------
(* Spec: threads calling create, load, opt_load, remove, credx_object_free  *)
(* and cast_ref.  A call ends in "done" with its result in res; Return     *)
(* hands the result to the caller and the thread is free for another call. *)

Idle == [op |-> "-", h |-> 0, obj |-> NoObject]
NoResult == [op |-> "-", h |-> 0, ty |-> "-", r |-> Ok(NoObject)]

\* the locals of an entry point.  An IndyObjectList that is only mapped by
\* refs_map (schemas, cred_defs) is kept as whether every object loaded into
\* it is of the type refs_map casts to; rev_reg_defs, which is indexed, as
\* that fact for each of its objects; rev_regs as the outcome the loop that
\* builds it has reached.
\* the frame of an entry point; before is the registry as it was when the
\* call was made
NoCall ==
    [op |-> "-", ip |-> 0, made |-> << >>, before |-> << >>,
     schemas |-> TRUE,
     cred_defs |-> TRUE, rev_reg_defs |-> << >>, entries |-> << >>,
     not_added |-> {}, rev_regs |-> "Success"]
NoReturn == [op |-> "-", code |-> "-", ip |-> 0]

FfiIdle ==
    /\ call = NoCall
    /\ out = << >>
    /\ ret = NoReturn

\* the frame of create_credential_request: arguments, the nonces in use
\* when it was called, locals in the order they are bound, the arguments of
\* each call of blind_credential_secrets it has made, and the value returned
NoRequest ==
    [pc |-> "idle",
     prover_did |-> "-", cred_def |-> "-", link_secret |-> "-",
     link_secret_id |-> "-", credential_offer |-> "-",
     credential_pub_key |-> "-", cred_values |-> "-",
     seen |-> {}, nonce |-> 0, nonce_copy |-> 0, blind |-> << >>,
     blinded |-> "-", result |-> "-"]

ReqIdle ==
    /\ req = NoRequest
    /\ nonces = {}

\* the frame of create_presentation: arguments, the index of the entry the
\* loop is at, the locals the loop updates, and the value returned
NoPresentation ==
    [pc |-> "idle",
     pres_req |-> "-", credentials |-> << >>, self_attested |-> << >>,
     schemas |-> << >>, cred_defs |-> << >>,
     entry |-> 0, requested_proof |-> "-", sub_proof_index |-> 0,
     identifiers |-> << >>, result |-> "-"]

PresIdle ==
    /\ pres = NoPresentation
    /\ trace = << >>

\* the frame of a verify entry point: the step it is at, the ErrorCode it
\* has returned, the locals (rev_regs is the outcome of the loop over
\* rev_reg_entries up to its first failure), the step it has performed
\* last, and the flag it has invoked the verifier with
NoFrame ==
    [ip |-> 0, code |-> "-", schemas |-> TRUE, cred_defs |-> TRUE,
     rev_reg_defs |-> << >>, rev_reg_entries |-> << >>,
     rev_regs |-> "Success", did |-> << >>,
     verifier |-> << >>, result |-> [set |-> FALSE, v |-> 0]]

VerIdle == ver = [plain |-> NoFrame, legacy |-> NoFrame]

\* the frame of create_or_update_revocation_state and the memory of its
\* caller: no call made, no CredentialRevocationState held
NoRevocationState ==
    [pc |-> "idle", calls |-> 0, args |-> "-", result |-> "-", states |-> << >>]

RevIdle == rev = NoRevocationState

\* no helper of the prover called on its own
NoUnitCall == [fn |-> "-", args |-> "-", result |-> "-"]

UnitIdle == unit = NoUnitCall

SvcIdle == ReqIdle /\ PresIdle /\ VerIdle /\ RevIdle /\ UnitIdle

Init ==
    /\ FfiIdle
    /\ SvcIdle
    /\ FFI_OBJECTS = << >>
    /\ FFI_OBJECT_COUNTER = 0
    /\ lock = NoThread
    /\ pc = [t \in Threads |-> "idle"]
    /\ cur = [t \in Threads |-> Idle]
    /\ res = [t \in Threads |-> NoResult]
    /\ issued = << >>
    /\ returned = {}
    /\ removed = {}
    /\ arcs = << >>

Finish(t, op, h, ty, r) ==
    /\ pc' = [pc EXCEPT ![t] = "done"]
    /\ cur' = [cur EXCEPT ![t] = Idle]
    /\ res' = [res EXCEPT ![t] = [op |-> op, h |-> h, ty |-> ty, r |-> r]]

\* create, line 32: let handle = Self::next()
Create_next(t, o) ==
    /\ pc[t] = "idle"
    /\ FFI_OBJECT_COUNTER < MaxCreates
    /\ LET n == ObjectHandle_next(FFI_OBJECT_COUNTER) IN
        /\ FFI_OBJECT_COUNTER' = n.counter
        /\ cur' = [cur EXCEPT ![t] = [op |-> "create", h |-> n.handle,
                                      obj |-> o]]
        /\ issued' = [k \in (DOMAIN issued) \cup {n.handle} |->
                        IF k = n.handle THEN o ELSE issued[k]]
    /\ pc' = [pc EXCEPT ![t] = "create_lock"]
    /\ UNCHANGED <<FFI_OBJECTS, lock, res, returned, removed, arcs>>

\* create, lines 33-36: lock, IndyObject::new, then insert stores the first
\* word
Create_insert(t) ==
    /\ pc[t] = "create_lock"
    /\ LockAvailable
    /\ lock' = t
    /\ arcs' = Arc_new(arcs, cur[t].h, cur[t].obj)
    /\ FFI_OBJECTS' = insert_data(FFI_OBJECTS, cur[t].h, cur[t].obj)
    /\ pc' = [pc EXCEPT ![t] = "create_store"]
    /\ UNCHANGED <<FFI_OBJECT_COUNTER, cur, res, issued, returned, removed>>

\* create, lines 36-37: insert stores the second word, the guard is dropped,
\* Ok(handle)
Create_return(t) ==
    /\ pc[t] = "create_store"
    /\ FFI_OBJECTS' = insert_vtable(FFI_OBJECTS, cur[t].h, cur[t].obj)
    /\ lock' = NoThread
    /\ returned' = returned \cup {cur[t].h}
    /\ Finish(t, "create", cur[t].h, "-", Ok(cur[t].obj))
    /\ UNCHANGED <<FFI_OBJECT_COUNTER, issued, removed, arcs>>

\* load / opt_load, the lookup under the lock: a miss returns at once, a hit
\* reads the first word of the entry
Lookup(t, op, h) ==
    /\ LockAvailable
    /\ IF h \in DOMAIN FFI_OBJECTS
       THEN /\ lock' = t
            /\ pc' = [pc EXCEPT ![t] = "load_clone"]
            /\ cur' = [cur EXCEPT ![t] =
                         [op |-> op, h |-> h,
                          obj |-> [data |-> FFI_OBJECTS[h].data,
                                   vtable |-> Unwritten]]]
            /\ UNCHANGED res
       ELSE /\ lock' = lock
            /\ Finish(t, op, h, "-",
                      IF op = "load" THEN load(FFI_OBJECTS, h)
                                     ELSE opt_load(FFI_OBJECTS, h))
    /\ UNCHANGED <<FFI_OBJECTS, FFI_OBJECT_COUNTER, issued, returned, removed,
                   arcs>>

\* load, lines 41-44
Load_get(t, h) ==
    /\ pc[t] = "idle"
    /\ Lookup(t, "load", h)

\* opt_load, lines 50-62: the registry is consulted only for a non-zero handle
OptLoad_get(t, h) ==
    /\ pc[t] = "idle"
    /\ IF h # 0
       THEN Lookup(t, "opt_load", h)
       ELSE /\ Finish(t, "opt_load", h, "-", opt_load(FFI_OBJECTS, h))
            /\ UNCHANGED <<FFI_OBJECTS, FFI_OBJECT_COUNTER, lock, issued,
                           returned, removed, arcs>>

\* load / opt_load: .cloned() reads the second word, the guard is dropped
Load_return(t) ==
    /\ pc[t] = "load_clone"
    /\ lock' = NoThread
    /\ LET h == cur[t].h
           got == [data |-> cur[t].obj.data,
                   vtable |-> IF h \in DOMAIN FFI_OBJECTS
                              THEN FFI_OBJECTS[h].vtable ELSE Unwritten]
       IN Finish(t, cur[t].op, h, "-", Ok(got))
    /\ arcs' = Arc_clone(arcs, cur[t].h)
    /\ UNCHANGED <<FFI_OBJECTS, FFI_OBJECT_COUNTER, issued, returned, removed>>

\* remove, lines 66-70, which moves the entry's IndyObject to the caller,
\* and credx_object_free, line 239: remove().ok(), which drops it
Remove_take(t, h, free) ==
    /\ pc[t] = "idle"
    /\ LockAvailable
    /\ LET r == remove(FFI_OBJECTS, h) IN
        /\ FFI_OBJECTS' = r.reg
        /\ removed' = IF r.result.ok THEN removed \cup {h} ELSE removed
        /\ IF free
           THEN Finish(t, "free", h, "-", Ok(NoObject))
           ELSE Finish(t, "remove", h, "-", r.result)
        /\ arcs' = IF free /\ r.result.ok THEN Arc_drop(arcs, h) ELSE arcs
    /\ UNCHANGED <<FFI_OBJECT_COUNTER, lock, issued, returned>>

Remove(t, h) == Remove_take(t, h, FALSE)

credx_object_free(t, h) == Remove_take(t, h, TRUE)

\* cast_ref::<U> on the object the thread has just loaded
Cast(t, U) ==
    /\ pc[t] = "done"
    /\ res[t].op \in {"load", "opt_load"}
    /\ res[t].r.ok
    /\ res[t].r.val # NoObject
    /\ Finish(t, "cast", res[t].h, U, cast_ref(res[t].r.val, U))
    /\ UNCHANGED <<FFI_OBJECTS, FFI_OBJECT_COUNTER, lock, issued, returned,
                   removed, arcs>>

\* the thread has an IndyObject in its hands: one it has loaded, and may
\* have cast, or one remove has moved to it
Holds(t) ==
    \/ res[t].op = "cast"
    \/ /\ res[t].op \in {"load", "opt_load", "remove"}
       /\ res[t].r.ok
       /\ res[t].r.val # NoObject

\* the caller is done with the result, and an IndyObject it holds goes out
\* of scope
Return(t) ==
    /\ pc[t] = "done"
    /\ pc' = [pc EXCEPT ![t] = "idle"]
    /\ res' = [res EXCEPT ![t] = NoResult]
    /\ arcs' = IF Holds(t) THEN Arc_drop(arcs, res[t].h) ELSE arcs
    /\ UNCHANGED <<FFI_OBJECTS, FFI_OBJECT_COUNTER, lock, cur, issued,
                   returned, removed>>

ThreadStep ==
    \E t \in Threads :
        \/ \E o \in Objects : Create_next(t, o)
        \/ Create_insert(t)
        \/ Create_return(t)
        \/ \E h \in Handles : Load_get(t, h)
        \/ \E h \in Handles : OptLoad_get(t, h)
        \/ Load_return(t)
        \/ \E h \in Handles : Remove(t, h)
        \/ \E h \in Handles : credx_object_free(t, h)
        \/ \E U \in Types : Cast(t, U)
        \/ Return(t)

Next == ThreadStep /\ UNCHANGED <<ffiVars, svcVars>>

Spec == Init /\ [][Next]_vars

-----------------------------------------------------------------------------
(* SpecFfi: the extern "C" entry points.  An entry point is the sequence of *)
(* its steps in source order; a step that fails ends the call with the      *)
(* error's code (catch_error), and the steps after it are not run.         *)

\* objects created in the registry across all calls explored
MaxFfiCreates == 5
\* <entity>_from_json calls explored
MaxFromJson == 3
\* length of the FfiList arguments explored
MaxList == 1

\* the entities the caller imports with <entity>_from_json
FfiTypes ==
    {"CredentialDefinition", "LinkSecret", "CredentialOffer",
     "PresentationRequest"}

FfiHandles == 0 .. MaxFfiCreates

SeqsUpTo(S, n) == UNION {[1 .. k -> S] : k \in 0 .. n}

\* FfiCredentialEntry: the timestamp only passes through to the service
FfiCredentialEntry == [credential : FfiHandles, rev_state : FfiHandles]

\* FfiCredentialProve: is_predicate and reveal only pass through
FfiCredentialProve == [entry_idx : -1 .. MaxList, referent : BOOLEAN]

FfiRevocationEntry ==
    [def_entry_idx : -1 .. (MaxList + 1), entry : FfiHandles,
     timestamp : {-1, 0}]

UnsetCell == [set |-> FALSE, v |-> 0]
Written(v) == [set |-> TRUE, v |-> v]

Step(k, ty, n) == [k |-> k, ty |-> ty, n |-> n]

\* number of out-pointers in the signature of an entry point
OutPointers(op) ==
    CASE op = "credx_create_credential_request" -> 2
      [] op = "credx_create_revocation_registry" -> 3
      [] OTHER -> 1

\* impl_indy_object_from_json!, object.rs:198-204
from_json(entity) ==
    << Step("ptr", "-", 1),
       Step("svc", "serde_json::from_slice", 0),
       Step("create", entity, 0),
       Step("write", "-", 1) >>

\* object.rs:214-220
credx_object_get_json ==
    << Step("ptr", "-", 1),
       Step("load", "-", 0),
       Step("svc", "to_json", 0),
       Step("write_value", "-", 1) >>

\* object.rs:228-234
credx_object_get_type_name ==
    << Step("ptr", "-", 1),
       Step("load", "-", 0),
       Step("write_value", "-", 1) >>

\* cred_req.rs:21-47
credx_create_credential_request_ZeroesFirst ==
    << Step("ptr", "-", 1),
       Step("ptr", "-", 2),
       Step("write_value", "-", 1),
       Step("write_value", "-", 2),
       Step("arg", "prover_did", 0),
       Step("arg", "link_secret_id", 0),
       Step("load", "CredentialDefinition", 0),
       Step("load", "LinkSecret", 0),
       Step("load", "CredentialOffer", 0),
       Step("svc", "create_credential_request", 0),
       Step("create", "CredentialRequest", 0),
       Step("create", "CredentialRequestMetadata", 0),
       Step("write", "-", 1),
       Step("write", "-", 2) >>

credx_create_credential_request ==
    << Step("ptr", "-", 1),
       Step("ptr", "-", 2),
       Step("arg", "prover_did", 0),
       Step("arg", "link_secret_id", 0),
       Step("load", "CredentialDefinition", 0),
       Step("load", "LinkSecret", 0),
       Step("load", "CredentialOffer", 0),
       Step("svc", "create_credential_request", 0),
       Step("create", "CredentialRequest", 0),
       Step("create", "CredentialRequestMetadata", 0),
       Step("write", "-", 1),
       Step("write", "-", 2) >>

\* revocation.rs:31-71 with the first ObjectHandle::create made before the
\* credential definition is loaded
credx_create_revocation_registry_CreatesEarly ==
    << Step("ptr", "-", 1),
       Step("ptr", "-", 2),
       Step("ptr", "-", 3),
       Step("arg", "origin_did", 0),
       Step("arg", "tag", 0),
       Step("arg", "rev_reg_type", 0),
       Step("arg", "issuance_type", 0),
       Step("create", "RevocationRegistryDefinition", 0),
       Step("load", "CredentialDefinition", 0),
       Step("svc", "create_revocation_registry", 0),
       Step("create", "RevocationRegistryDefinitionPrivate", 0),
       Step("create", "RevocationRegistry", 0),
       Step("write", "-", 1),
       Step("write", "-", 2),
       Step("write", "-", 3) >>

\* revocation.rs:31-71
credx_create_revocation_registry ==
    << Step("ptr", "-", 1),
       Step("ptr", "-", 2),
       Step("ptr", "-", 3),
       Step("arg", "origin_did", 0),
       Step("arg", "tag", 0),
       Step("arg", "rev_reg_type", 0),
       Step("arg", "issuance_type", 0),
       Step("load", "CredentialDefinition", 0),
       Step("svc", "create_revocation_registry", 0),
       Step("create", "RevocationRegistryDefinition", 0),
       Step("create", "RevocationRegistryDefinitionPrivate", 0),
       Step("create", "RevocationRegistry", 0),
       Step("write", "-", 1),
       Step("write", "-", 2),
       Step("write", "-", 3) >>

\* presentation.rs:71-151
credx_create_presentation ==
    << Step("ptr", "-", 1),
       Step("arg", "self_attest lengths", 0),
       Step("entries_load", "-", 0),
       Step("load_list", "Schema", 1),
       Step("load_list", "CredentialDefinition", 2),
       Step("arg", "self_attest strings", 0),
       Step("entries_prove", "-", 0),
       Step("load", "PresentationRequest", 0),
       Step("load", "LinkSecret", 0),
       Step("cast_list", "Schema", 1),
       Step("cast_list", "CredentialDefinition", 2),
       Step("svc", "create_presentation", 0),
       Step("create", "Presentation", 0),
       Step("write", "-", 1) >>

\* presentation.rs:232-261; credx_verify_presentation passes
\* accept_legacy_revocation = FALSE
_credx_verify_presentation(accept_legacy_revocation) ==
    << Step("load_list", "Schema", 1),
       Step("load_list", "CredentialDefinition", 2),
       Step("load_list", "RevocationRegistryDefinition", 3),
       Step("rev_entries_load", "-", 0),
       Step("rev_entries_index", "-", 0),
       Step("load", "Presentation", 0),
       Step("load", "PresentationRequest", 0),
       Step("cast_list", "Schema", 1),
       Step("cast_list", "CredentialDefinition", 2),
       Step("cast_list", "RevocationRegistryDefinition", 3),
       Step("svc", IF accept_legacy_revocation
                   THEN "_verify_presentation(legacy)"
                   ELSE "_verify_presentation", 0),
       Step("write_value", "-", 1) >>

credx_verify_presentation == _credx_verify_presentation(FALSE)

\* presentation.rs:200-219
credx_verify_presentation_legacy_SameFlag == _credx_verify_presentation(FALSE)

credx_verify_presentation_legacy == _credx_verify_presentation(TRUE)

FfiOps ==
    {"credx_object_get_json", "credx_object_get_type_name",
     "credx_create_credential_request", "credx_create_revocation_registry",
     "credx_create_presentation", "credx_verify_presentation"}

Program(op) ==
    CASE op = "credx_object_get_json" -> credx_object_get_json
      [] op = "credx_object_get_type_name" -> credx_object_get_type_name
      [] op = "credx_create_credential_request" ->
            credx_create_credential_request
      [] op = "credx_create_revocation_registry" ->
            credx_create_revocation_registry
      [] op = "credx_create_presentation" -> credx_create_presentation
      [] op = "credx_verify_presentation" -> credx_verify_presentation
      [] OTHER -> from_json(op)

\* objects the steps of Program(op) create
Creates(op) ==
    Cardinality({i \in DOMAIN Program(op) : Program(op)[i].k = "create"})

\* ObjectHandle::create with the lock free: next, then insert
create(reg, counter, o) ==
    LET n == ObjectHandle_next(counter) IN
        [handle |-> n.handle, counter |-> n.counter,
         reg |-> insert(reg, n.handle, o)]

\* handle.load()?.cast_ref::<U>()? ; U = "-" is a load without cast
load_cast(reg, h, U) ==
    LET l == load(reg, h) IN
        IF l.ok /\ U # "-" THEN cast_ref(l.val, U) ELSE l

\* IndyObjectList::load, object.rs:252-258, for one element of the list: the
\* loaded object is kept as what a later cast_ref::<U> of it gives
IndyObjectList_load(reg, h, U) ==
    LET l == load(reg, h) IN
        [ok |-> l.ok, item |-> l.ok /\ cast_ref(l.val, U).ok]

\* FfiCredentialEntry::load, presentation.rs:28-41; the entry is kept as
\* whether the casts of presentation.rs:109-116 succeed on it
FfiCredentialEntry_load(reg, e) ==
    LET c == load(reg, e.credential)
        r == opt_load(reg, e.rev_state)
    IN  [ok |-> c.ok /\ r.ok,
         item |-> /\ c.ok /\ cast_ref(c.val, "Credential").ok
                  /\ r.ok
                  /\ \/ r.val = NoObject
                     \/ cast_ref(r.val, "CredentialRevocationState").ok]

\* presentation.rs:107-138: the loop over the entries and, inside it, over
\* credentials_prove; TRUE when no step of it fails
entries_prove(entries, prove) ==
    \A e \in DOMAIN entries :
        /\ entries[e]
        /\ \A i \in DOMAIN prove :
            /\ ~(prove[i].entry_idx < 0)
            /\ (prove[i].entry_idx = e - 1) => prove[i].referent

\* presentation.rs:107-138: the entry_idx of the items of credentials_prove
\* that the loop, when no step of it fails, has passed to no
\* add_requested_attribute or add_requested_predicate: line 122 skips an
\* item at every entry whose index is not its entry_idx
not_added(entries, prove) ==
    {prove[i].entry_idx :
        i \in {j \in DOMAIN prove :
                \A e \in DOMAIN entries : prove[j].entry_idx # e - 1}}

\* FfiRevocationEntry::load, presentation.rs:163-174
FfiRevocationEntry_load(reg, e) ==
    LET l == load(reg, e.entry) IN
        [ok |-> ~(e.def_entry_idx < 0) /\ l.ok /\ ~(e.timestamp < 0),
         item |-> [idx |-> e.def_entry_idx,
                   entry |-> l.ok
                             /\ cast_ref(l.val, "RevocationRegistry").ok]]

\* presentation.rs:238-249 with the check *idx >= rev_reg_defs.len()
rev_entries_index_GreaterOrEqual(rev_reg_defs, e) ==
    IF e.idx >= Len(rev_reg_defs) THEN "Input"
    ELSE IF ~rev_reg_defs[e.idx + 1] THEN "Input"
    ELSE IF ~e.entry THEN "Input"
    ELSE "Success"

\* presentation.rs:238-249, the body of the loop over the loaded entries for
\* one entry; rev_reg_defs[*idx] past the end of the list panics
rev_entries_index(rev_reg_defs, e) ==
    IF e.idx > Len(rev_reg_defs) THEN "Input"
    ELSE IF e.idx = Len(rev_reg_defs) THEN "panic"
    ELSE IF ~rev_reg_defs[e.idx + 1] THEN "Input"
    ELSE IF ~e.entry THEN "Input"
    ELSE "Success"

InitFfi ==
    /\ FfiIdle
    /\ SvcIdle
    /\ FFI_OBJECTS = << >>
    /\ FFI_OBJECT_COUNTER = 0
    /\ lock = NoThread
    /\ pc = [t \in Threads |-> "idle"]
    /\ cur = [t \in Threads |-> Idle]
    /\ res = [t \in Threads |-> NoResult]
    /\ issued = << >>
    /\ returned = {}
    /\ removed = {}
    /\ arcs = << >>

FromJsonCalls == Cardinality({h \in DOMAIN FFI_OBJECTS :
                                FFI_OBJECTS[h].vtable \in FfiTypes})

\* the caller enters an entry point, its out-pointers at cells it has not
\* initialised
Ffi_call(op) ==
    /\ call = NoCall
    /\ FFI_OBJECT_COUNTER + Creates(op) <= MaxFfiCreates
    /\ op \in FfiTypes => FromJsonCalls < MaxFromJson
    /\ call' = [NoCall EXCEPT !.op = op, !.ip = 1, !.before = FFI_OBJECTS]
    /\ out' = [i \in 1 .. OutPointers(op) |-> UnsetCell]
    /\ ret' = [op |-> op, code |-> "running", ip |-> 0]
    /\ UNCHANGED regVars

Cur == Program(call.op)[call.ip]

At(k) ==
    /\ call # NoCall
    /\ call.ip \in DOMAIN Program(call.op)
    /\ Cur.k = k

Advance == call' = [call EXCEPT !.ip = call.ip + 1]

\* catch_error(|| ..): Success when the closure returns Ok(()), else the code
\* of the error's kind
catch_error(ok, kind) == IF ok THEN "Success" ELSE kind

\* the closure returns Err(kind) from the step it is at
Fail(kind) ==
    /\ call' = NoCall
    /\ ret' = [op |-> call.op, code |-> catch_error(FALSE, kind),
               ip |-> call.ip]
    /\ UNCHANGED out

Proceed(ok, code) ==
    IF ok THEN Advance /\ UNCHANGED <<out, ret>> ELSE Fail(code)

\* check_useful_c_ptr!(p): an Input error for a null pointer
Ffi_ptr(ok) ==
    /\ At("ptr")
    /\ Proceed(ok, "Input")
    /\ UNCHANGED regVars

\* as_opt_str().ok_or_else(..)?, from_str(..)?, the length comparison
Ffi_arg(ok) ==
    /\ At("arg")
    /\ Proceed(ok, "Input")
    /\ UNCHANGED regVars

Ffi_load(h) ==
    /\ At("load")
    /\ LET r == load_cast(FFI_OBJECTS, h, Cur.ty) IN
        Proceed(r.ok, r.err.kind)
    /\ UNCHANGED regVars

\* list n of the entry point with one more object, which casts or not
PushList(n, item) ==
    CASE n = 1 -> [call EXCEPT !.schemas = @ /\ item]
      [] n = 2 -> [call EXCEPT !.cred_defs = @ /\ item]
      [] n = 3 -> [call EXCEPT !.rev_reg_defs = Append(@, item)]

\* whether every object of list n casts
CastList(n) ==
    CASE n = 1 -> call.schemas
      [] n = 2 -> call.cred_defs
      [] n = 3 -> \A i \in DOMAIN call.rev_reg_defs : call.rev_reg_defs[i]

\* the next element of an FfiList argument is loaded; the list is the
\* caller's, and is read here one element at a time
Ffi_load_list(h) ==
    /\ At("load_list")
    /\ Cur.n = 3 => Len(call.rev_reg_defs) < MaxList
    /\ LET r == IndyObjectList_load(FFI_OBJECTS, h, Cur.ty) IN
        IF r.ok
        THEN call' = PushList(Cur.n, r.item) /\ UNCHANGED <<out, ret>>
        ELSE Fail(InvalidHandle.kind)
    /\ UNCHANGED regVars

\* the end of an FfiList argument
Ffi_list_end ==
    /\ At("load_list") \/ At("entries_load") \/ At("rev_entries_load")
    /\ Advance
    /\ UNCHANGED <<regVars, out, ret>>

\* IndyObjectList::refs_map, object.rs:273-284
Ffi_cast_list ==
    /\ At("cast_list")
    /\ Proceed(CastList(Cur.n), "Input")
    /\ UNCHANGED regVars

Ffi_entries_load(e) ==
    /\ At("entries_load")
    /\ Len(call.entries) < MaxList
    /\ LET r == FfiCredentialEntry_load(FFI_OBJECTS, e) IN
        IF r.ok
        THEN /\ call' = [call EXCEPT !.entries = Append(call.entries, r.item)]
             /\ UNCHANGED <<out, ret>>
        ELSE Fail(InvalidHandle.kind)
    /\ UNCHANGED regVars

Ffi_entries_prove(prove) ==
    /\ At("entries_prove")
    /\ IF entries_prove(call.entries, prove)
       THEN /\ call' = [call EXCEPT
                            !.ip = call.ip + 1,
                            !.not_added = not_added(call.entries, prove)]
            /\ UNCHANGED <<out, ret>>
       ELSE Fail("Input")
    /\ UNCHANGED regVars

\* the next FfiRevocationEntry is loaded.  The loop of presentation.rs:238-249
\* runs once all of them are, and returns at the first entry it rejects:
\* what it will do with this entry is settled here, rev_reg_defs being
\* complete.
Ffi_rev_entries_load(e) ==
    /\ At("rev_entries_load")
    /\ LET r == FfiRevocationEntry_load(FFI_OBJECTS, e) IN
        IF r.ok
        THEN /\ call' = [call EXCEPT !.rev_regs =
                            IF @ = "Success"
                            THEN rev_entries_index(call.rev_reg_defs, r.item)
                            ELSE @]
             /\ UNCHANGED <<out, ret>>
        ELSE Fail("Input")
    /\ UNCHANGED regVars

Ffi_rev_entries_index ==
    /\ At("rev_entries_index")
    /\ Proceed(call.rev_regs = "Success", call.rev_regs)
    /\ UNCHANGED regVars

\* a call into the services or into serde: Ok, or an error of some kind
Ffi_svc(ok, kind) ==
    /\ At("svc")
    /\ Proceed(ok, kind)
    /\ UNCHANGED regVars

Ffi_create ==
    /\ At("create")
    /\ LET c == create(FFI_OBJECTS, FFI_OBJECT_COUNTER,
                       [data |-> "v1", vtable |-> Cur.ty]) IN
        /\ FFI_OBJECTS' = c.reg
        /\ FFI_OBJECT_COUNTER' = c.counter
        /\ call' = [call EXCEPT !.made = Append(call.made, c.handle),
                                !.ip = call.ip + 1]
    /\ UNCHANGED <<out, ret>>

\* unsafe { *p = handle }
Ffi_write ==
    /\ At("write")
    /\ out' = [out EXCEPT ![Cur.n] = Written(call.made[Cur.n])]
    /\ Advance
    /\ UNCHANGED <<regVars, ret>>

\* unsafe { *result_p = value } for a buffer, a string or the verdict
Ffi_write_value(v) ==
    /\ At("write_value")
    /\ out' = [out EXCEPT ![Cur.n] = Written(v)]
    /\ Advance
    /\ UNCHANGED <<regVars, ret>>

\* the closure returns Ok(())
Ffi_return ==
    /\ call # NoCall
    /\ call.ip = Len(Program(call.op)) + 1
    /\ call' = NoCall
    /\ ret' = [op |-> call.op, code |-> catch_error(TRUE, "-"),
               ip |-> call.ip]
    /\ UNCHANGED <<regVars, out>>

FfiStep ==
    \/ call = NoCall /\ \E op \in FfiOps \cup FfiTypes : Ffi_call(op)
    \/ At("ptr") /\ \E ok \in BOOLEAN : Ffi_ptr(ok)
    \/ At("arg") /\ \E ok \in BOOLEAN : Ffi_arg(ok)
    \/ At("load") /\ \E h \in FfiHandles : Ffi_load(h)
    \/ At("load_list") /\ \E h \in FfiHandles : Ffi_load_list(h)
    \/ Ffi_list_end
    \/ Ffi_cast_list
    \/ At("entries_load")
        /\ \E e \in FfiCredentialEntry : Ffi_entries_load(e)
    \/ At("entries_prove")
        /\ \E pr \in SeqsUpTo(FfiCredentialProve, MaxList) :
                Ffi_entries_prove(pr)
    \/ At("rev_entries_load")
        /\ \E e \in FfiRevocationEntry : Ffi_rev_entries_load(e)
    \/ Ffi_rev_entries_index
    \/ At("svc")
        /\ \E ok \in BOOLEAN, kind \in {"Input", "Unexpected"} :
                Ffi_svc(ok, kind)
    \/ Ffi_create
    \/ Ffi_write
    \/ At("write_value") /\ \E v \in {0, 1} : Ffi_write_value(v)
    \/ Ffi_return

NextFfi == FfiStep /\ UNCHANGED <<thrVars, svcVars>>

SpecFfi == InitFfi /\ [][NextFfi]_vars

-----------------------------------------------------------------------------
(* SpecReq: prover::create_credential_request, prover.rs:27-84.  The CL     *)
(* primitives are symbolic: what they return is the record of what they    *)
(* were given.  A call of a CL primitive, of new_nonce or of try_clone can  *)
(* fail, and the function then returns the error.                          *)

\* nonces the offers and new_nonce draw from
MaxNonces == 3

Nonces == 1 .. MaxNonces
DidValues == {"did:1", "did:2"}
CredentialDefinitionIds == {"creddef:1", "creddef:2"}
LinkSecretIds == {"default", "other"}
KeyCorrectnessProofs == {"kcp:1", "kcp:2"}

\* CredentialDefinitionV1, cred_def.rs:79-86 (the fields the function reads)
CredentialDefinitions == [id : CredentialDefinitionIds, value : {"key:1"}]

LinkSecrets == [value : {"ms:1"}]

\* CredentialOffer{cred_def_id, key_correctness_proof, nonce}
CredentialOffers ==
    [cred_def_id : CredentialDefinitionIds,
     key_correctness_proof : KeyCorrectnessProofs, nonce : Nonces]

\* CredentialPublicKey::build_from_parts(&value.primary, value.revocation)
CredentialPublicKey_build_from_parts(value) == [public_key_of |-> value]

\* prover.rs:48-50: the values builder with the link secret as the hidden
\* value "master_secret"
credential_values(link_secret) ==
    [master_secret |-> [hidden |-> link_secret.value]]

\* ClProver::blind_credential_secrets
blind_credential_secrets(a) ==
    [blinded_ms |-> [blinded_ms_of |-> a],
     master_secret_blinding_data |-> [blinding_data_of |-> a],
     blinded_ms_correctness_proof |-> [correctness_proof_of |-> a]]

\* new_nonce(): the values it can return, none of which is in use
new_nonce(used) == Nonces \ used

\* prover.rs:55-61: the arguments of the call of blind_credential_secrets
blind_args(r) ==
    [credential_pub_key |-> r.credential_pub_key,
     key_correctness_proof |-> r.credential_offer.key_correctness_proof,
     cred_values |-> r.cred_values,
     nonce |-> r.credential_offer.nonce]

\* prover.rs:63-69
CredentialRequest_OfferNonce(r) ==
    [prover_did |-> r.prover_did,
     cred_def_id |-> r.credential_offer.cred_def_id,
     blinded_ms |-> r.blinded.blinded_ms,
     blinded_ms_correctness_proof |-> r.blinded.blinded_ms_correctness_proof,
     nonce |-> r.credential_offer.nonce]

CredentialRequest_CredDefId(r) ==
    [prover_did |-> r.prover_did,
     cred_def_id |-> r.cred_def.id,
     blinded_ms |-> r.blinded.blinded_ms,
     blinded_ms_correctness_proof |-> r.blinded.blinded_ms_correctness_proof,
     nonce |-> r.nonce]

CredentialRequest(r) ==
    [prover_did |-> r.prover_did,
     cred_def_id |-> r.credential_offer.cred_def_id,
     blinded_ms |-> r.blinded.blinded_ms,
     blinded_ms_correctness_proof |-> r.blinded.blinded_ms_correctness_proof,
     nonce |-> r.nonce]

\* prover.rs:71-75
CredentialRequestMetadata(r) ==
    [master_secret_blinding_data |-> r.blinded.master_secret_blinding_data,
     nonce |-> r.nonce_copy,
     master_secret_name |-> r.link_secret_id]

\* the caller passes its arguments; the offer's nonce is in use from then on
Req_call(prover_did, cred_def, link_secret, link_secret_id, credential_offer) ==
    /\ req.pc \in {"idle", "done"}
    /\ Cardinality(nonces \cup {credential_offer.nonce}) < MaxNonces
    /\ nonces' = nonces \cup {credential_offer.nonce}
    /\ req' = [NoRequest EXCEPT
                !.pc = "build_from_parts",
                !.prover_did = prover_did,
                !.cred_def = cred_def,
                !.link_secret = link_secret,
                !.link_secret_id = link_secret_id,
                !.credential_offer = credential_offer,
                !.seen = nonces']

\* a `?` of prover.rs:44-61 returns the error of the call it follows
Req_fail ==
    /\ req.pc \in {"build_from_parts", "values", "new_nonce", "try_clone",
                   "blind"}
    /\ req' = [req EXCEPT
                !.pc = "done",
                !.result = Err([kind |-> "Unexpected", msg |-> req.pc])]
    /\ UNCHANGED nonces

\* prover.rs:44-47
Req_build_from_parts ==
    /\ req.pc = "build_from_parts"
    /\ req' = [req EXCEPT
                !.pc = "values",
                !.credential_pub_key =
                    CredentialPublicKey_build_from_parts(req.cred_def.value)]
    /\ UNCHANGED nonces

\* prover.rs:48-50
Req_values ==
    /\ req.pc = "values"
    /\ req' = [req EXCEPT
                !.pc = "new_nonce",
                !.cred_values = credential_values(req.link_secret)]
    /\ UNCHANGED nonces

\* prover.rs:52
Req_new_nonce(n) ==
    /\ req.pc = "new_nonce"
    /\ n \in new_nonce(nonces)
    /\ nonces' = nonces \cup {n}
    /\ req' = [req EXCEPT !.pc = "try_clone", !.nonce = n]

\* prover.rs:53
Req_try_clone ==
    /\ req.pc = "try_clone"
    /\ req' = [req EXCEPT !.pc = "blind", !.nonce_copy = req.nonce]
    /\ UNCHANGED nonces

\* prover.rs:55-61
Req_blind ==
    /\ req.pc = "blind"
    /\ req' = [req EXCEPT
                !.pc = "return",
                !.blind = Append(req.blind, blind_args(req)),
                !.blinded = blind_credential_secrets(blind_args(req))]
    /\ UNCHANGED nonces

\* prover.rs:63-83
Req_return ==
    /\ req.pc = "return"
    /\ req' = [req EXCEPT
                !.pc = "done",
                !.result = Ok([credential_request |-> CredentialRequest(req),
                               credential_request_metadata |->
                                    CredentialRequestMetadata(req)])]
    /\ UNCHANGED nonces

InitReq ==
    /\ FfiIdle
    /\ SvcIdle
    /\ FFI_OBJECTS = << >>
    /\ FFI_OBJECT_COUNTER = 0
    /\ lock = NoThread
    /\ pc = [t \in Threads |-> "idle"]
    /\ cur = [t \in Threads |-> Idle]
    /\ res = [t \in Threads |-> NoResult]
    /\ issued = << >>
    /\ returned = {}
    /\ removed = {}
    /\ arcs = << >>

ReqStep ==
    \/ \E prover_did \in DidValues, cred_def \in CredentialDefinitions,
          link_secret \in LinkSecrets, link_secret_id \in LinkSecretIds,
          credential_offer \in CredentialOffers :
            Req_call(prover_did, cred_def, link_secret, link_secret_id,
                     credential_offer)
    \/ Req_fail
    \/ Req_build_from_parts
    \/ Req_values
    \/ \E n \in Nonces : Req_new_nonce(n)
    \/ Req_try_clone
    \/ Req_blind
    \/ Req_return

NextReq ==
    ReqStep /\ UNCHANGED <<regVars, thrVars, ffiVars, presVars, verVars, revVars,
                          unitVars>>

SpecReq == InitReq /\ [][NextReq]_vars

-----------------------------------------------------------------------------
(* SpecPres: prover::create_presentation, prover.rs:128-254, and the       *)
(* helpers it calls, prover.rs:309-504.  A string that gets normalised is  *)
(* a sequence of characters, an Option a sequence of at most one element,  *)
(* a HashMap a function on its keys, a HashSet a set: where the code        *)
(* iterates over a HashSet the order is an input of the step.  The calls   *)
(* to PresentCredentials::validate and to the proof builder are recorded   *)
(* in trace in the order they are made.  A CL primitive can fail.          *)

\* entries of a PresentCredentials collection
MaxEntries == 2

None == << >>
Some(x) == <<x>>

EmptyMap == << >>
MapInsert(m, k, v) == [x \in DOMAIN m \cup {k} |-> IF x = k THEN v ELSE m[x]]

\* the orders in which a HashSet can be iterated
Orders(S) ==
    {o \in [1 .. Cardinality(S) -> S] :
        \A i, j \in DOMAIN o : i # j => o[i] # o[j]}

\* an identifier is the method prefix of its qualified form, or none, and
\* the rest
Qualified(id) == [prefix |-> "sov", id |-> id]
Unqualified(id) == [prefix |-> "", id |-> id]

\* Qualifiable::to_unqualified
to_unqualified(i) == Unqualified(i.id)

\* attr_common_view: whitespace removed, lower-cased
attr_common_view(name) ==
    LET kept == SelectSeq(name, LAMBDA c : c # " ")
        lower(c) == CASE c = "A" -> "a" [] c = "B" -> "b" [] OTHER -> c
    IN  [i \in DOMAIN kept |-> lower(kept[i])]

\* Display of PredicateTypes
PredicateTypes_fmt(p_type) ==
    CASE p_type = "GE" -> ">=" [] p_type = "GT" -> ">"
      [] p_type = "LE" -> "<=" [] p_type = "LT" -> "<"

\* err_msg! with a format argument
err_msg_fmt(msg, arg) == [kind |-> "Input", msg |-> msg, arg |-> arg]

\* the error a CL primitive's failure is converted to
ClError(f) == [kind |-> "Unexpected", msg |-> f]

\* the credentials the prover holds: one with qualified ids, no revocation
\* registry and two attributes, one with unqualified ids, a revocation
\* registry and one attribute
Credentials ==
    {[schema_id |-> Qualified("schema:1"),
      cred_def_id |-> Qualified("creddef:1"),
      rev_reg_id |-> None,
      values |-> (<<"A", "g", "e">> :> [raw |-> "25", encoded |-> "e25"])
                    @@ (<<"B">> :> [raw |-> "7", encoded |-> "e7"]),
      signature |-> "sig:1"],
     [schema_id |-> Unqualified("schema:2"),
      cred_def_id |-> Unqualified("creddef:2"),
      rev_reg_id |-> Some(Qualified("revreg:2")),
      values |-> (<<"a", "g", "e">> :> [raw |-> "31", encoded |-> "e31"]),
      signature |-> "sig:2"]}

\* what an entry of the collection says of its credential: the timestamp
\* and the two referent sets, as add_requested_attribute and
\* add_requested_predicate have filled them
Selections ==
    {[timestamp |-> None, requested_attributes |-> {},
      requested_predicates |-> {}],
     [timestamp |-> Some(10), requested_attributes |-> {<<"r1", TRUE>>},
      requested_predicates |-> {}],
     [timestamp |-> None, requested_attributes |-> {<<"r1", FALSE>>},
      requested_predicates |-> {}],
     [timestamp |-> Some(20), requested_attributes |-> {},
      requested_predicates |-> {"p1"}],
     [timestamp |-> None,
      requested_attributes |-> {<<"r1", TRUE>>, <<"r1", FALSE>>},
      requested_predicates |-> {}],
     [timestamp |-> Some(10), requested_attributes |-> {<<"r1", TRUE>>},
      requested_predicates |-> {"r1"}],
     [timestamp |-> None, requested_attributes |-> {<<"r1", TRUE>>},
      requested_predicates |-> {"p1"}],
     [timestamp |-> Some(20), requested_attributes |-> {<<"r2", TRUE>>},
      requested_predicates |-> {}]}

\* PresentCredential: cred, timestamp, rev_state and the two referent sets
PresentCredential ==
    {[cred |-> c, timestamp |-> s.timestamp, rev_state |-> None,
      requested_attributes |-> s.requested_attributes,
      requested_predicates |-> s.requested_predicates] :
        c \in Credentials, s \in Selections}

\* PresentationRequestPayload: one that asks for one attribute under each
\* of the referents r1 and r2 and for a predicate under referent p1, one
\* that asks for a group of two attributes under referent r1, and one whose
\* AttributeInfo under r1 has both name and names and under r2 has neither
\* (both fields are Options, read at prover.rs:403-451)
PresentationRequestPayloads ==
    {[nonce |-> "nonce:1",
      requested_attributes |->
        ("r1" :> [name |-> Some(<<"a", "g", "e", " ">>), names |-> None])
            @@ ("r2" :> [name |-> Some(<<"B">>), names |-> None]),
      requested_predicates |->
        ("p1" :> [name |-> <<"a", "g", "e">>, p_type |-> "GE",
                  p_value |-> 18])],
     [nonce |-> "nonce:2",
      requested_attributes |->
        ("r1" :> [name |-> None,
                  names |-> Some(<< <<"A", "g", "e">>, <<"B">> >>)]),
      requested_predicates |-> EmptyMap],
     [nonce |-> "nonce:6",
      requested_attributes |->
        ("r1" :> [name |-> Some(<<"B">>),
                  names |-> Some(<< <<"A", "g", "e">> >>)])
            @@ ("r2" :> [name |-> None, names |-> None]),
      requested_predicates |-> EmptyMap]}

PresentationRequests ==
    [ver : {"V1", "V2"}, payload : PresentationRequestPayloads]

\* PresentationRequest::value
PresentationRequest_value(pres_req) == pres_req.payload

SelfAttested == {None, Some(EmptyMap), Some("note" :> "self")}

\* the trusted schemas and credential definitions, keyed by id
Schemas ==
    {(Qualified("schema:1") :> [attr_names |-> {<<"A", "g", "e">>, <<"B">>}])
        @@ (Unqualified("schema:2") :> [attr_names |-> {<<"a", "g", "e">>}]),
     (Qualified("schema:1") :> [attr_names |-> {<<"A", "g", "e">>, <<"B">>}])}

CredDefs ==
    {(Qualified("creddef:1") :> [value |-> "key:1"])
        @@ (Unqualified("creddef:2") :> [value |-> "key:2"]),
     (Qualified("creddef:1") :> [value |-> "key:1"])}

\* PresentCredentials::is_empty
PresentCredentials_is_empty(credentials) == Len(credentials) = 0

\* PresentCredential::is_empty
PresentCredential_is_empty(present) ==
    /\ present.requested_attributes = {}
    /\ present.requested_predicates = {}

\* the referents of an entry
AttrReferents(present) == {a[1] : a \in present.requested_attributes}
Referents(present) == AttrReferents(present) \cup present.requested_predicates

\* PresentCredentials::validate: no referent twice, within an entry or
\* across entries
PresentCredentials_validate(credentials) ==
    /\ \A i \in DOMAIN credentials :
        /\ Cardinality(credentials[i].requested_attributes)
                = Cardinality(AttrReferents(credentials[i]))
        /\ AttrReferents(credentials[i])
                \cap credentials[i].requested_predicates = {}
    /\ \A i, j \in DOMAIN credentials :
        i # j => Referents(credentials[i]) \cap Referents(credentials[j]) = {}

\* prover.rs:140-145: nothing is presented
nothing_presented_IgnoresSelfAttested(credentials, self_attested) ==
    PresentCredentials_is_empty(credentials)

nothing_presented(credentials, self_attested) ==
    /\ PresentCredentials_is_empty(credentials)
    /\ IF self_attested # None
       THEN DOMAIN self_attested[1] = {}
       ELSE TRUE

NothingPresented ==
    err_msg("No credential mapping or self-attested attributes presented")

\* RequestedProof::default
RequestedProof_default ==
    [revealed_attrs |-> EmptyMap, revealed_attr_groups |-> EmptyMap,
     self_attested_attrs |-> EmptyMap, unrevealed_attrs |-> EmptyMap,
     predicates |-> EmptyMap]

\* prover.rs:309-366 with a referent the request does not have left out of
\* the result instead of ending the call
prepare_credential_for_proving_SkipsMissing(requested_attributes, requested_predicates, pres_req) ==
    LET attrs == SelectSeq(requested_attributes,
                    LAMBDA a : a[1] \in DOMAIN pres_req.requested_attributes)
        preds == SelectSeq(requested_predicates,
                    LAMBDA p : p \in DOMAIN pres_req.requested_predicates)
    IN  Ok([attrs |->
                [i \in DOMAIN attrs |->
                    [attr_referent |-> attrs[i][1],
                     attr_info |-> pres_req.requested_attributes[attrs[i][1]],
                     revealed |-> attrs[i][2]]],
            preds |->
                [i \in DOMAIN preds |->
                    [predicate_referent |-> preds[i],
                     predicate_info |->
                        pres_req.requested_predicates[preds[i]]]]])

\* prover.rs:309-366, the HashSets iterated in the orders given
prepare_credential_for_proving(requested_attributes, requested_predicates, pres_req) ==
    LET no_attr == {i \in DOMAIN requested_attributes :
                        requested_attributes[i][1]
                            \notin DOMAIN pres_req.requested_attributes}
        no_pred == {i \in DOMAIN requested_predicates :
                        requested_predicates[i]
                            \notin DOMAIN pres_req.requested_predicates}
        first(S) == CHOOSE i \in S : \A j \in S : i <= j
    IN  IF no_attr # {}
        THEN Err(err_msg_fmt(
                "AttributeInfo not found in PresentationRequest for referent",
                requested_attributes[first(no_attr)][1]))
        ELSE IF no_pred # {}
        THEN Err(err_msg_fmt(
                "PredicateInfo not found in PresentationRequest for referent",
                requested_predicates[first(no_pred)]))
        ELSE Ok([attrs |->
                    [i \in DOMAIN requested_attributes |->
                        [attr_referent |-> requested_attributes[i][1],
                         attr_info |-> pres_req.requested_attributes[
                                            requested_attributes[i][1]],
                         revealed |-> requested_attributes[i][2]]],
                 preds |->
                    [i \in DOMAIN requested_predicates |->
                        [predicate_referent |-> requested_predicates[i],
                         predicate_info |-> pres_req.requested_predicates[
                                            requested_predicates[i]]]]])

\* prover.rs:368-389: the values find() can return, none for None
\* prover.rs:380 with the key and the requested name compared as they are
get_credential_values_for_attribute_ExactKey(credential_attrs, requested_attr) ==
    {credential_attrs[k] :
        k \in {x \in DOMAIN credential_attrs : x = requested_attr}}

get_credential_values_for_attribute_AnyKey(credential_attrs, requested_attr) ==
    {credential_attrs[k] : k \in DOMAIN credential_attrs}

get_credential_values_for_attribute(credential_attrs, requested_attr) ==
    {credential_attrs[k] :
        k \in {x \in DOMAIN credential_attrs :
                attr_common_view(x) = attr_common_view(requested_attr)}}

\* what update_requested_proof has reached: Ok with the tables, or the
\* error it returns
Updated(requested_proof) ==
    [ok |-> TRUE, requested_proof |-> requested_proof, msg |-> "", arg |-> << >>]
NotFound(requested_proof, name) ==
    [ok |-> FALSE, requested_proof |-> requested_proof,
     msg |-> "Credential value not found for attribute", arg |-> name]

\* prover.rs:404-450, the body of the loop over req_attrs_for_credential:
\* the outcomes it can have for one attribute
update_requested_attr_NotRevealed(attr_info, proof_req, credential, sub_proof_index, requested_proof) ==
    {Updated([requested_proof EXCEPT !.unrevealed_attrs =
        MapInsert(@, attr_info.attr_referent,
                  [sub_proof_index |-> sub_proof_index])])}

update_requested_attr(attr_info, proof_req, credential, sub_proof_index, requested_proof) ==
    LET attribute == proof_req.requested_attributes[attr_info.attr_referent]
        found(name) ==
            get_credential_values_for_attribute(credential.values, name)
    IN  IF ~attr_info.revealed
        THEN {Updated([requested_proof EXCEPT !.unrevealed_attrs =
                MapInsert(@, attr_info.attr_referent,
                          [sub_proof_index |-> sub_proof_index])])}
        ELSE IF attribute.name # None
        THEN IF found(attribute.name[1]) = {}
             THEN {NotFound(requested_proof, attribute.name[1])}
             ELSE {Updated([requested_proof EXCEPT !.revealed_attrs =
                        MapInsert(@, attr_info.attr_referent,
                                  [sub_proof_index |-> sub_proof_index,
                                   raw |-> v.raw, encoded |-> v.encoded])]) :
                    v \in found(attribute.name[1])}
        ELSE IF attribute.names # None
        THEN LET names == attribute.names[1]
                 missing == {i \in DOMAIN names : found(names[i]) = {}}
                 keys == {names[i] : i \in DOMAIN names}
                 all == UNION {found(n) : n \in keys}
             IN  IF missing # {}
                 THEN {NotFound(requested_proof,
                            names[CHOOSE i \in missing :
                                    \A j \in missing : i <= j])}
                 ELSE {Updated([requested_proof EXCEPT
                            !.revealed_attr_groups =
                                MapInsert(@, attr_info.attr_referent,
                                    [sub_proof_index |-> sub_proof_index,
                                     values |-> value_map])]) :
                        value_map \in {m \in [keys -> all] :
                                        \A n \in keys : m[n] \in found(n)}}
        ELSE {Updated(requested_proof)}

\* the loop over req_attrs_for_credential from its i-th element
RECURSIVE update_requested_attrs(_, _, _, _, _, _)
update_requested_attrs(attrs, i, proof_req, credential, sub_proof_index, requested_proof) ==
    IF i > Len(attrs)
    THEN {Updated(requested_proof)}
    ELSE UNION {IF o.ok
                THEN update_requested_attrs(attrs, i + 1, proof_req,
                        credential, sub_proof_index, o.requested_proof)
                ELSE {o} :
                o \in update_requested_attr(attrs[i], proof_req, credential,
                                            sub_proof_index, requested_proof)}

\* prover.rs:453-458, the loop over req_predicates_for_credential from its
\* i-th element
RECURSIVE update_requested_preds(_, _, _, _)
update_requested_preds(preds, i, sub_proof_index, requested_proof) ==
    IF i > Len(preds)
    THEN requested_proof
    ELSE update_requested_preds(preds, i + 1, sub_proof_index,
            [requested_proof EXCEPT !.predicates =
                MapInsert(@, preds[i].predicate_referent,
                          [sub_proof_index |-> sub_proof_index])])

\* prover.rs:391-463: the outcomes update_requested_proof can have
update_requested_proof(req_attrs_for_credential, req_predicates_for_credential, proof_req, credential, sub_proof_index, requested_proof) ==
    {IF o.ok
     THEN Updated(update_requested_preds(req_predicates_for_credential, 1,
                                         sub_proof_index, o.requested_proof))
     ELSE o :
        o \in update_requested_attrs(req_attrs_for_credential, 1, proof_req,
                                     credential, sub_proof_index,
                                     requested_proof)}

\* prover.rs:465-504: the SubProofRequest the builder holds once the revealed
\* attributes and the predicates have been added to it
build_sub_proof_request_AllAttrs(req_attrs_for_credential, req_predicates_for_credential) ==
    [revealed_attrs |->
        UNION {LET attr == req_attrs_for_credential[i] IN
                IF attr.attr_info.name # None
                THEN {attr_common_view(attr.attr_info.name[1])}
                ELSE {attr_common_view(attr.attr_info.names[1][n]) :
                        n \in DOMAIN attr.attr_info.names[1]} :
               i \in DOMAIN req_attrs_for_credential},
     predicates |->
        {[attr_name |-> attr_common_view(
                req_predicates_for_credential[i].predicate_info.name),
          p_type |-> PredicateTypes_fmt(
                req_predicates_for_credential[i].predicate_info.p_type),
          value |-> req_predicates_for_credential[i].predicate_info.p_value] :
            i \in DOMAIN req_predicates_for_credential}]

build_sub_proof_request(req_attrs_for_credential, req_predicates_for_credential) ==
    [revealed_attrs |->
        UNION {LET attr == req_attrs_for_credential[i] IN
                IF ~attr.revealed THEN {}
                ELSE IF attr.attr_info.name # None
                THEN {attr_common_view(attr.attr_info.name[1])}
                ELSE IF attr.attr_info.names # None
                THEN {attr_common_view(attr.attr_info.names[1][n]) :
                        n \in DOMAIN attr.attr_info.names[1]}
                ELSE {} :
               i \in DOMAIN req_attrs_for_credential},
     predicates |->
        {[attr_name |-> attr_common_view(
                req_predicates_for_credential[i].predicate_info.name),
          p_type |-> PredicateTypes_fmt(
                req_predicates_for_credential[i].predicate_info.p_type),
          value |-> req_predicates_for_credential[i].predicate_info.p_value] :
            i \in DOMAIN req_predicates_for_credential}]

\* prover.rs:214-228
Identifier_AsStored(pres_req, credential, present) ==
    [schema_id |-> credential.schema_id,
     cred_def_id |-> credential.cred_def_id,
     rev_reg_id |-> credential.rev_reg_id,
     timestamp |-> present.timestamp]

Identifier(pres_req, credential, present) ==
    IF pres_req.ver = "V1"
    THEN [schema_id |-> to_unqualified(credential.schema_id),
          cred_def_id |-> to_unqualified(credential.cred_def_id),
          rev_reg_id |-> IF credential.rev_reg_id # None
                         THEN Some(to_unqualified(credential.rev_reg_id[1]))
                         ELSE None,
          timestamp |-> present.timestamp]
    ELSE [schema_id |-> credential.schema_id,
          cred_def_id |-> credential.cred_def_id,
          rev_reg_id |-> credential.rev_reg_id,
          timestamp |-> present.timestamp]

\* prover.rs:229, identifiers.push
push_Front(identifiers, identifier) == <<identifier>> \o identifiers

push(identifiers, identifier) == Append(identifiers, identifier)

\* a call recorded in trace
Called(f, arg) == [f |-> f, arg |-> arg]

\* the caller passes its arguments
Pres_call(pres_req, credentials, self_attested, schemas, cred_defs) ==
    /\ pres.pc = "idle"
    /\ pres' = [NoPresentation EXCEPT
                    !.pc = "check",
                    !.pres_req = pres_req,
                    !.credentials = credentials,
                    !.self_attested = self_attested,
                    !.schemas = schemas,
                    !.cred_defs = cred_defs]
    /\ UNCHANGED trace

\* return Err(e)
Pres_fail(e) == pres' = [pres EXCEPT !.pc = "done", !.result = Err(e)]

\* prover.rs:140-149
Pres_check ==
    /\ pres.pc = "check"
    /\ IF nothing_presented(pres.credentials, pres.self_attested)
       THEN Pres_fail(NothingPresented)
       ELSE pres' = [pres EXCEPT !.pc = "validate"]
    /\ UNCHANGED trace

\* prover.rs:151
Pres_validate_Ignored ==
    /\ pres.pc = "validate"
    /\ trace' = Append(trace, Called("validate", << >>))
    /\ pres' = [pres EXCEPT !.pc = "builder"]

Pres_validate ==
    /\ pres.pc = "validate"
    /\ trace' = Append(trace, Called("validate", << >>))
    /\ IF PresentCredentials_validate(pres.credentials)
       THEN pres' = [pres EXCEPT !.pc = "builder"]
       ELSE Pres_fail(err_msg("Duplicate referent"))

\* prover.rs:153-164 without the call at 155
Pres_builder_Unseeded(cl) ==
    /\ pres.pc = "builder"
    /\ UNCHANGED trace
    /\ IF cl = "none"
       THEN pres' = [pres EXCEPT
                        !.pc = "loop",
                        !.entry = 1,
                        !.requested_proof =
                            [RequestedProof_default EXCEPT
                                !.self_attested_attrs =
                                    IF pres.self_attested # None
                                    THEN pres.self_attested[1]
                                    ELSE EmptyMap],
                        !.sub_proof_index = 0,
                        !.identifiers = << >>]
       ELSE Pres_fail(ClError(cl))

\* prover.rs:153-164; cl names the CL primitive that fails, if one does
Pres_builder(cl) ==
    /\ pres.pc = "builder"
    /\ trace' = IF cl = "new_proof_builder"
                THEN trace
                ELSE Append(trace,
                            Called("add_common_attribute", "master_secret"))
    /\ IF cl = "none"
       THEN pres' = [pres EXCEPT
                        !.pc = "loop",
                        !.entry = 1,
                        !.requested_proof =
                            [RequestedProof_default EXCEPT
                                !.self_attested_attrs =
                                    IF pres.self_attested # None
                                    THEN pres.self_attested[1]
                                    ELSE EmptyMap],
                        !.sub_proof_index = 0,
                        !.identifiers = << >>]
       ELSE Pres_fail(ClError(cl))

\* prover.rs:171-183: the error of the lookups of the schema and of the
\* credential definition of a credential, none when both are found
not_provided_CredDefOnly(schemas, cred_defs, credential) ==
    IF credential.cred_def_id \notin DOMAIN cred_defs
    THEN Some(err_msg_fmt("Credential Definition not provided for ID",
                          credential.cred_def_id))
    ELSE None

not_provided(schemas, cred_defs, credential) ==
    IF credential.schema_id \notin DOMAIN schemas
    THEN Some(err_msg_fmt("Schema not provided for ID", credential.schema_id))
    ELSE IF credential.cred_def_id \notin DOMAIN cred_defs
    THEN Some(err_msg_fmt("Credential Definition not provided for ID",
                          credential.cred_def_id))
    ELSE None

\* prover.rs:165-241, one iteration of the loop over the entries;
\* requested_attributes and requested_predicates are the two HashSets of the
\* entry in the order they are iterated, cl the CL primitive that fails
Pres_entry(requested_attributes, requested_predicates, cl) ==
    /\ pres.pc = "loop"
    /\ pres.entry <= Len(pres.credentials)
    /\ LET present == pres.credentials[pres.entry]
           credential == present.cred
           pres_req_val == PresentationRequest_value(pres.pres_req)
           prepared == prepare_credential_for_proving(
                            requested_attributes, requested_predicates,
                            pres_req_val)
           sub_proof_request == build_sub_proof_request(prepared.val.attrs,
                                                        prepared.val.preds)
           added == Append(trace, Called("add_sub_proof_request",
                        [sub_proof_request |-> sub_proof_request,
                         credential_schema |->
                            pres.schemas[credential.schema_id].attr_names,
                         signature |-> credential.signature,
                         credential_values |-> credential.values,
                         credential_pub_key |->
                            CredentialPublicKey_build_from_parts(
                                pres.cred_defs[credential.cred_def_id].value),
                         rev_state |-> present.rev_state]))
           identifiers == push(pres.identifiers,
                               Identifier(pres.pres_req, credential, present))
       IN  /\ requested_attributes \in Orders(present.requested_attributes)
           /\ requested_predicates \in Orders(present.requested_predicates)
           /\ IF PresentCredential_is_empty(present)
              THEN /\ cl = "none"
                   /\ pres' = [pres EXCEPT !.entry = @ + 1]
                   /\ UNCHANGED trace
              ELSE IF not_provided(pres.schemas, pres.cred_defs,
                                   credential) # None
              THEN /\ cl = "none"
                   /\ Pres_fail(not_provided(pres.schemas, pres.cred_defs,
                                             credential)[1])
                   /\ UNCHANGED trace
              ELSE IF cl = "build_from_parts"
              THEN Pres_fail(ClError(cl)) /\ UNCHANGED trace
              ELSE IF ~prepared.ok
              THEN cl = "none" /\ Pres_fail(prepared.err) /\ UNCHANGED trace
              ELSE IF cl = "build_sub_proof_request"
              THEN Pres_fail(ClError(cl)) /\ UNCHANGED trace
              ELSE IF cl = "add_sub_proof_request"
              THEN Pres_fail(ClError(cl)) /\ trace' = added
              ELSE /\ trace' = added
                   /\ \E o \in update_requested_proof(
                                prepared.val.attrs, prepared.val.preds,
                                pres_req_val, credential,
                                pres.sub_proof_index, pres.requested_proof) :
                        IF o.ok
                        THEN pres' = [pres EXCEPT
                                !.entry = @ + 1,
                                !.identifiers = identifiers,
                                !.requested_proof = o.requested_proof,
                                !.sub_proof_index = @ + 1]
                        ELSE pres' = [pres EXCEPT
                                !.pc = "done",
                                !.identifiers = identifiers,
                                !.requested_proof = o.requested_proof,
                                !.result = Err(err_msg_fmt(o.msg, o.arg))]

\* prover.rs:243-253
Pres_finalize(ok) ==
    /\ pres.pc = "loop"
    /\ pres.entry > Len(pres.credentials)
    /\ trace' = Append(trace,
            Called("finalize", PresentationRequest_value(pres.pres_req).nonce))
    /\ IF ok
       THEN pres' = [pres EXCEPT
                        !.pc = "done",
                        !.result = Ok([proof |-> [proof_of |-> trace'],
                                       requested_proof |-> pres.requested_proof,
                                       identifiers |-> pres.identifiers])]
       ELSE Pres_fail(ClError("finalize"))

InitPres ==
    /\ FfiIdle
    /\ SvcIdle
    /\ FFI_OBJECTS = << >>
    /\ FFI_OBJECT_COUNTER = 0
    /\ lock = NoThread
    /\ pc = [t \in Threads |-> "idle"]
    /\ cur = [t \in Threads |-> Idle]
    /\ res = [t \in Threads |-> NoResult]
    /\ issued = << >>
    /\ returned = {}
    /\ removed = {}
    /\ arcs = << >>

PresStep ==
    \/ /\ pres.pc = "idle"
       /\ \E pres_req \in PresentationRequests,
             credentials \in SeqsUpTo(PresentCredential, MaxEntries),
             self_attested \in SelfAttested,
             schemas \in Schemas, cred_defs \in CredDefs :
            Pres_call(pres_req, credentials, self_attested, schemas, cred_defs)
    \/ Pres_check
    \/ Pres_validate
    \/ \E cl \in {"none", "new_proof_builder", "add_common_attribute",
                  "build_non_credential_schema"} : Pres_builder(cl)
    \/ /\ pres.pc = "loop"
       /\ pres.entry <= Len(pres.credentials)
       /\ \E requested_attributes \in
                Orders(pres.credentials[pres.entry].requested_attributes),
             requested_predicates \in
                Orders(pres.credentials[pres.entry].requested_predicates),
             cl \in {"none", "build_from_parts", "build_sub_proof_request",
                     "add_sub_proof_request"} :
            Pres_entry(requested_attributes, requested_predicates, cl)
    \/ \E ok \in BOOLEAN : Pres_finalize(ok)

NextPres ==
    PresStep /\ UNCHANGED <<regVars, thrVars, ffiVars, reqVars, verVars, revVars,
                           unitVars>>

SpecPres == InitPres /\ [][NextPres]_vars

-----------------------------------------------------------------------------
(* SpecVerify: credx_verify_presentation and                                *)
(* credx_verify_presentation_legacy, presentation.rs:177-262, called with   *)
(* the same arguments on the same registry.  The two calls advance          *)
(* together: each step reads the next piece of the arguments, the same for  *)
(* both.  The verifier is a function outside src/: what it returns may      *)
(* depend on accept_legacy_revocation.                                      *)

\* the objects the caller holds handles of, in the order created
VerifyTypes ==
    <<"Schema", "CredentialDefinition", "RevocationRegistryDefinition",
      "RevocationRegistry", "Presentation", "PresentationRequest">>

\* the registry and the counter after the first n of them were created
RECURSIVE VerifyRegistry(_)
VerifyRegistry(n) ==
    IF n = 0
    THEN [reg |-> << >>, counter |-> 0]
    ELSE LET before == VerifyRegistry(n - 1)
             c == create(before.reg, before.counter,
                         [data |-> "v1", vtable |-> VerifyTypes[n]])
         IN  [reg |-> c.reg, counter |-> c.counter]

\* handles the caller can pass: 0, the handles created, one never created
VerifyHandles == 0 .. Len(VerifyTypes) + 1

\* what _verify_presentation returns: Ok(true), Ok(false) or an error
Verdicts == {"true", "false", "Input", "Unexpected"}

\* what a step reads: whether the list it iterates has ended, the handle or
\* the FfiRevocationEntry it is given, and what the verifier returns for
\* each value of accept_legacy_revocation
NoInput ==
    [end |-> FALSE, h |-> 0,
     e |-> [def_entry_idx |-> 0, entry |-> 0, timestamp |-> 0],
     verify |-> [flag \in BOOLEAN |-> "true"]]

VerifyInputs(k) ==
    CASE k = "load_list" ->
            {[NoInput EXCEPT !.end = TRUE]}
                \cup {[NoInput EXCEPT !.h = h] : h \in VerifyHandles}
      [] k = "rev_entries_load" ->
            {[NoInput EXCEPT !.end = TRUE]}
                \cup {[NoInput EXCEPT !.e = e] : e \in FfiRevocationEntry}
      [] k = "load" -> {[NoInput EXCEPT !.h = h] : h \in VerifyHandles}
      [] k = "svc" ->
            {[NoInput EXCEPT !.verify = v] : v \in [BOOLEAN -> Verdicts]}
      [] OTHER -> {NoInput}

\* the flag an entry point passes to _verify_presentation
accept_legacy_revocation(step) == step.ty = "_verify_presentation(legacy)"

\* one step of _credx_verify_presentation, presentation.rs:232-261, on the
\* frame f of an entry point whose steps are program
verify_step(program, f, reg, x) ==
    IF f.ip = Len(program) + 1
    THEN [f EXCEPT !.code = catch_error(TRUE, "-")]
    ELSE
    LET step == program[f.ip]
        done(g) == [g EXCEPT !.did = Some(step)]
        fail(kind) == done([f EXCEPT !.code = catch_error(FALSE, kind)])
        advance(g) == done([g EXCEPT !.ip = @ + 1])
        proceed(ok, kind) == IF ok THEN advance(f) ELSE fail(kind)
    IN  CASE step.k = "load_list" ->
                IF x.end THEN advance(f)
                ELSE LET r == IndyObjectList_load(reg, x.h, step.ty) IN
                    IF ~r.ok THEN fail(InvalidHandle.kind)
                    ELSE done(CASE step.n = 1 ->
                                    [f EXCEPT !.schemas = @ /\ r.item]
                                [] step.n = 2 ->
                                    [f EXCEPT !.cred_defs = @ /\ r.item]
                                [] step.n = 3 ->
                                    [f EXCEPT !.rev_reg_defs =
                                                Append(@, r.item)])
          [] step.k = "rev_entries_load" ->
                IF x.end THEN advance(f)
                ELSE LET r == FfiRevocationEntry_load(reg, x.e) IN
                    IF ~r.ok THEN fail("Input")
                    ELSE done([f EXCEPT
                                !.rev_reg_entries = Append(@, r.item),
                                !.rev_regs =
                                    IF @ = "Success"
                                    THEN rev_entries_index(f.rev_reg_defs,
                                                           r.item)
                                    ELSE @])
          [] step.k = "rev_entries_index" ->
                proceed(f.rev_regs = "Success", f.rev_regs)
          [] step.k = "load" ->
                LET r == load_cast(reg, x.h, step.ty) IN
                    proceed(r.ok, r.err.kind)
          [] step.k = "cast_list" ->
                proceed(CASE step.n = 1 -> f.schemas
                          [] step.n = 2 -> f.cred_defs
                          [] step.n = 3 ->
                                \A i \in DOMAIN f.rev_reg_defs :
                                    f.rev_reg_defs[i],
                        "Input")
          [] step.k = "svc" ->
                LET flag == accept_legacy_revocation(step)
                    invoked == [f EXCEPT !.verifier =
                                    Some([accept_legacy_revocation |-> flag,
                                          rev_reg_defs |-> f.rev_reg_defs])]
                IN  IF x.verify[flag] \in {"true", "false"}
                    THEN advance([invoked EXCEPT !.result =
                            Written(IF x.verify[flag] = "true" THEN 1 ELSE 0)])
                    ELSE done([invoked EXCEPT !.code =
                                catch_error(FALSE, x.verify[flag])])
          [] step.k = "write_value" -> advance(f)

Running(f) == f.code = "running"

\* the caller enters both entry points
Ver_call ==
    /\ ~Running(ver.plain)
    /\ ~Running(ver.legacy)
    /\ ver' = [plain |-> [NoFrame EXCEPT !.ip = 1, !.code = "running"],
               legacy |-> [NoFrame EXCEPT !.ip = 1, !.code = "running"]]
    /\ UNCHANGED regVars

\* the step kind the calls are at
VerifyAt ==
    LET at(program, f) == IF f.ip \in DOMAIN program
                          THEN program[f.ip].k ELSE "return"
    IN  IF Running(ver.plain)
        THEN at(credx_verify_presentation, ver.plain)
        ELSE at(credx_verify_presentation_legacy, ver.legacy)

\* each call that has not returned takes its next step, on the input x
Ver_step(x) ==
    /\ Running(ver.plain) \/ Running(ver.legacy)
    /\ \A f \in {ver.plain, ver.legacy} :
        (f.ip \in DOMAIN credx_verify_presentation
            /\ ~x.end
            /\ credx_verify_presentation[f.ip].k = "load_list"
            /\ credx_verify_presentation[f.ip].n = 3)
                => Len(f.rev_reg_defs) < MaxList
    /\ \A f \in {ver.plain, ver.legacy} :
        (f.ip \in DOMAIN credx_verify_presentation
            /\ ~x.end
            /\ credx_verify_presentation[f.ip].k = "rev_entries_load")
                => Len(f.rev_reg_entries) < MaxList
    /\ ver' = [plain |->
                    IF Running(ver.plain)
                    THEN verify_step(credx_verify_presentation, ver.plain,
                                     FFI_OBJECTS, x)
                    ELSE ver.plain,
               legacy |->
                    IF Running(ver.legacy)
                    THEN verify_step(credx_verify_presentation_legacy,
                                     ver.legacy, FFI_OBJECTS, x)
                    ELSE ver.legacy]
    /\ UNCHANGED regVars

InitVerify ==
    /\ FfiIdle
    /\ SvcIdle
    /\ FFI_OBJECTS = VerifyRegistry(Len(VerifyTypes)).reg
    /\ FFI_OBJECT_COUNTER = VerifyRegistry(Len(VerifyTypes)).counter
    /\ lock = NoThread
    /\ pc = [t \in Threads |-> "idle"]
    /\ cur = [t \in Threads |-> Idle]
    /\ res = [t \in Threads |-> NoResult]
    /\ issued = FFI_OBJECTS
    /\ returned = DOMAIN FFI_OBJECTS
    /\ removed = {}
    /\ arcs = << >>

VerStep ==
    \/ Ver_call
    \/ \E x \in VerifyInputs(VerifyAt) : Ver_step(x)

NextVerify ==
    VerStep /\ UNCHANGED <<thrVars, ffiVars, reqVars, presVars, revVars,
                          unitVars>>

SpecVerify == InitVerify /\ [][NextVerify]_vars

-----------------------------------------------------------------------------
(* SpecRev: prover::create_or_update_revocation_state, prover.rs:256-307.   *)
(* The caller keeps every CredentialRevocationState a call has returned in  *)
(* rev.states and passes either no prior state or a reference to one it     *)
(* holds.  The function is given the caller's states and returns them with  *)
(* its result, so that what a call does to the state behind the reference   *)
(* is part of the model.  Witness::new and Witness::update are CL           *)
(* primitives: a witness is the record of how it was built, and either      *)
(* call can fail.                                                          *)

\* number of calls a behaviour makes
MaxRevCalls == 2

\* RevocationRegistryDefinitionV1.value: the two fields the function reads
RevocationRegistryDefinitions ==
    {[max_cred_num |-> 4, issuance_type |-> "ISSUANCE_BY_DEFAULT"],
     [max_cred_num |-> 5, issuance_type |-> "ISSUANCE_ON_DEMAND"]}

\* RevocationRegistryDeltaV1.value
RevocationRegistryDeltas == {"delta:1", "delta:2"}

\* rev_reg_idx: u32
CredRevIndices == {1, 2}

\* timestamp: u64
Timestamps == {10, 20}

\* IssuanceType::to_bool
to_bool(issuance_type) == issuance_type = "ISSUANCE_BY_DEFAULT"

\* Witness::new(rev_reg_idx, max_cred_num, issuance_by_default, rev_reg_delta,
\* tails_reader), prover.rs:283-289
Witness_new(rev_reg_idx, max_cred_num, issuance_by_default, rev_reg_delta) ==
    [rev_reg_idx |-> rev_reg_idx, max_cred_num |-> max_cred_num,
     issuance_by_default |-> issuance_by_default,
     rev_reg_delta |-> rev_reg_delta, updates |-> << >>]

\* source_rev_state.witness.clone(), prover.rs:291
Witness_clone(witness) == witness

\* witness.update(rev_reg_idx, max_cred_num, rev_reg_delta, tails_reader),
\* prover.rs:292-297
Witness_update(witness, rev_reg_idx, max_cred_num, rev_reg_delta) ==
    [witness EXCEPT !.updates =
        Append(@, [rev_reg_idx |-> rev_reg_idx, max_cred_num |-> max_cred_num,
                   rev_reg_delta |-> rev_reg_delta])]

\* CryptoRevocationRegistry::from(rev_reg_delta.value.clone()), prover.rs:304
CryptoRevocationRegistry_from(rev_reg_delta) == [accum_of |-> rev_reg_delta]

\* the arguments of a call; rev_state is None or Some(i), a reference to
\* the i-th state the caller holds
RevArguments(states) ==
    [revoc_reg_def : RevocationRegistryDefinitions,
     rev_reg_delta : RevocationRegistryDeltas,
     rev_reg_idx : CredRevIndices,
     timestamp : Timestamps,
     rev_state : {None} \cup {Some(i) : i \in DOMAIN states}]

\* prover.rs:282-300 with the mutable witness being the one of the state
\* behind rev_state instead of a clone of it
witness_InPlace(states, a, cl) ==
    IF ~cl
    THEN [states |-> states, witness |-> None]
    ELSE IF a.rev_state = None
    THEN [states |-> states,
          witness |-> Some(Witness_new(a.rev_reg_idx,
                                       a.revoc_reg_def.max_cred_num,
                                       to_bool(a.revoc_reg_def.issuance_type),
                                       a.rev_reg_delta))]
    ELSE LET i == a.rev_state[1]
             witness == Witness_update(states[i].witness, a.rev_reg_idx,
                                       a.revoc_reg_def.max_cred_num,
                                       a.rev_reg_delta)
         IN [states |-> [states EXCEPT ![i].witness = witness],
             witness |-> Some(witness)]

\* prover.rs:282-300: the witness, None when the CL call fails (cl = FALSE),
\* and the caller's states after the match
witness(states, a, cl) ==
    IF ~cl
    THEN [states |-> states, witness |-> None]
    ELSE IF a.rev_state = None
    THEN [states |-> states,
          witness |-> Some(Witness_new(a.rev_reg_idx,
                                       a.revoc_reg_def.max_cred_num,
                                       to_bool(a.revoc_reg_def.issuance_type),
                                       a.rev_reg_delta))]
    ELSE LET source_rev_state == states[a.rev_state[1]]
             cloned == Witness_clone(source_rev_state.witness)
         IN [states |-> states,
             witness |-> Some(Witness_update(cloned, a.rev_reg_idx,
                                             a.revoc_reg_def.max_cred_num,
                                             a.rev_reg_delta))]

\* prover.rs:302-306 with the timestamp of the prior state kept when it is
\* the later one
CredentialRevocationState_Latest(states, a, w) ==
    [witness |-> w,
     rev_reg |-> CryptoRevocationRegistry_from(a.rev_reg_delta),
     timestamp |-> IF a.rev_state # None
                      /\ states[a.rev_state[1]].timestamp > a.timestamp
                   THEN states[a.rev_state[1]].timestamp
                   ELSE a.timestamp]

\* prover.rs:302-306
CredentialRevocationState(states, a, w) ==
    [witness |-> w,
     rev_reg |-> CryptoRevocationRegistry_from(a.rev_reg_delta),
     timestamp |-> a.timestamp]

\* prover.rs:256-307: the caller's states after the call and the Result
create_or_update_revocation_state(states, a, cl) ==
    LET w == witness(states, a, cl)
    IN IF w.witness = None
       THEN [states |-> w.states,
             result |-> Err(ClError(IF a.rev_state = None
                                    THEN "Witness::new"
                                    ELSE "Witness::update"))]
       ELSE [states |-> w.states,
             result |-> Ok(CredentialRevocationState(w.states, a, w.witness[1]))]

\* a call of the function
Rev_call(a, cl) ==
    /\ rev.pc = "idle"
    /\ rev.calls < MaxRevCalls
    /\ LET r == create_or_update_revocation_state(rev.states, a, cl)
       IN rev' = [rev EXCEPT !.pc = "done", !.calls = @ + 1, !.args = a,
                             !.states = r.states, !.result = r.result]

\* the caller takes the Result and keeps the state of an Ok
Rev_return ==
    /\ rev.pc = "done"
    /\ rev' = [rev EXCEPT
                 !.pc = "idle", !.args = "-", !.result = "-",
                 !.states = IF rev.result.ok
                            THEN Append(@, rev.result.val)
                            ELSE @]

InitRev ==
    /\ FfiIdle
    /\ SvcIdle
    /\ FFI_OBJECTS = << >>
    /\ FFI_OBJECT_COUNTER = 0
    /\ lock = NoThread
    /\ pc = [t \in Threads |-> "idle"]
    /\ cur = [t \in Threads |-> Idle]
    /\ res = [t \in Threads |-> NoResult]
    /\ issued = << >>
    /\ returned = {}
    /\ removed = {}
    /\ arcs = << >>

RevStep ==
    \/ /\ rev.pc = "idle"
       /\ \E a \in RevArguments(rev.states), cl \in BOOLEAN : Rev_call(a, cl)
    \/ Rev_return

NextRev ==
    RevStep /\ UNCHANGED <<regVars, thrVars, ffiVars, reqVars, presVars, verVars,
                          unitVars>>

SpecRev == InitRev /\ [][NextRev]_vars

-----------------------------------------------------------------------------
(* SpecUnit: the helpers of create_presentation called on their own, as    *)
(* the tests of prover.rs call them (prover.rs:506-703).  A call is one     *)
(* step: unit holds the helper called, its arguments and what it returned,  *)
(* until the caller takes the result.                                      *)
(* A HashSet argument is given as the sequence its iteration yields.        *)

\* number of elements of a HashSet or HashMap argument
MaxRefs == 2

\* sequences of at most n distinct elements of S
Iterations(S, n) ==
    UNION {Orders(T) : T \in {U \in SUBSET S : Cardinality(U) <= n}}

\* referents a caller can name: those of the requests and one of no request
UnitAttrReferents == {"r1", "r2", "r9"}
UnitPredReferents == {"p1", "p9"}

\* the payloads of the requests, and payloads with requested_attributes or
\* requested_predicates cleared, as in the tests (prover.rs:626, 637)
UnitPayloads ==
    PresentationRequestPayloads
        \cup {[nonce |-> "nonce:3", requested_attributes |-> EmptyMap,
                requested_predicates |-> EmptyMap],
               [nonce |-> "nonce:4",
                requested_attributes |->
                    ("r1" :> [name |-> Some(<<"B">>), names |-> None]),
                requested_predicates |-> EmptyMap],
               [nonce |-> "nonce:5", requested_attributes |-> EmptyMap,
                requested_predicates |->
                    ("p1" :> [name |-> <<"B">>, p_type |-> "GE",
                              p_value |-> 1])]}

\* prover.rs:309-366 called with the two sets and the payload
Unit_prepare_credential_for_proving(requested_attributes, requested_predicates, pres_req) ==
    unit' = [fn |-> "prepare_credential_for_proving",
             args |-> [requested_attributes |-> requested_attributes,
                       requested_predicates |-> requested_predicates,
                       pres_req |-> pres_req],
             result |-> prepare_credential_for_proving(
                            requested_attributes, requested_predicates,
                            pres_req)]

\* attribute names, as the tests write them: "name", "NAme", "   na me  ",
\* "    name    " (prover.rs:658-701), and names that are other attributes
UnitNames ==
    {<<"a", "g">>, <<"A", "g">>, <<" ", "a", " ", "g", " ">>,
     <<" ", "a", "g", " ">>, <<"a">>, <<"g">>, <<"a", "g", "e">>}

AttributeValues == {[raw |-> "25", encoded |-> "e25"],
                    [raw |-> "31", encoded |-> "e31"]}

\* HashMap<String, AttributeValues> of at most n keys
CredentialAttrs(n) ==
    UNION {[K -> AttributeValues] :
            K \in {U \in SUBSET UnitNames : Cardinality(U) <= n}}

\* prover.rs:368-389 called with the values of a credential and a name;
\* found is what find returns, the iteration of the HashMap being in no
\* order: a value of a key that matches, or none when there is none
Unit_get_credential_values_for_attribute(credential_attrs, requested_attr, found) ==
    /\ found \in {Some(v) : v \in get_credential_values_for_attribute(
                                    credential_attrs, requested_attr)}
                    \cup {n \in {None} :
                            get_credential_values_for_attribute(
                                credential_attrs, requested_attr) = {}}
    /\ unit' = [fn |-> "get_credential_values_for_attribute",
                args |-> [credential_attrs |-> credential_attrs,
                          requested_attr |-> requested_attr],
                result |-> found]

\* the caller has taken the result and can make another call
Unit_return ==
    /\ unit.fn # "-"
    /\ unit' = NoUnitCall

InitUnit ==
    /\ FfiIdle
    /\ SvcIdle
    /\ FFI_OBJECTS = << >>
    /\ FFI_OBJECT_COUNTER = 0
    /\ lock = NoThread
    /\ pc = [t \in Threads |-> "idle"]
    /\ cur = [t \in Threads |-> Idle]
    /\ res = [t \in Threads |-> NoResult]
    /\ issued = << >>
    /\ returned = {}
    /\ removed = {}
    /\ arcs = << >>

UnitStep ==
    \/ /\ unit.fn = "-"
       /\ \E requested_attributes \in
                Iterations(UnitAttrReferents \X BOOLEAN, MaxRefs),
             requested_predicates \in Iterations(UnitPredReferents, MaxRefs),
             pres_req \in UnitPayloads :
                Unit_prepare_credential_for_proving(
                    requested_attributes, requested_predicates, pres_req)
    \/ /\ unit.fn = "-"
       /\ \E credential_attrs \in CredentialAttrs(MaxRefs),
             requested_attr \in UnitNames,
             found \in {None} \cup {Some(v) : v \in AttributeValues} :
                Unit_get_credential_values_for_attribute(
                    credential_attrs, requested_attr, found)
    \/ Unit_return

NextUnit ==
    UnitStep /\ UNCHANGED <<regVars, thrVars, ffiVars, reqVars, presVars, verVars,
                           revVars>>

SpecUnit == InitUnit /\ [][NextUnit]_vars

-----------------------------------------------------------------------------
(* Properties of the registry under Spec *)

\* the step in which thread t completes a call of op
Completes(t, op) == pc[t] # "done" /\ pc'[t] = "done" /\ res'[t].op = op

\* the step in which thread t casts the object it has loaded
CastStep(t) ==
    pc[t] = "done" /\ res[t].op \in {"load", "opt_load"} /\ res'[t].op = "cast"

\* h was returned by a create and no remove has succeeded on it since
Live(h) == h \in returned \ removed

\* C1: a load(h) succeeds exactly when h was returned by a create and has not
\* been removed since, and it then returns the object passed to that create;
\* any other load, in particular every load after a successful remove(h),
\* fails with the Input error "Invalid object handle".
C1_LoadIffLive ==
    [][\A t \in Threads :
        Completes(t, "load") =>
            LET h == res'[t].h
                r == res'[t].r
            IN  /\ r.ok <=> Live(h)
                /\ r.ok => h \in DOMAIN issued /\ r.val = issued[h]
                /\ ~r.ok => r.err = InvalidHandle /\ r.err.kind = "Input"]_vars

C1_Witness ==
    \E t, u \in Threads :
        /\ res[t].op = "load" /\ res[t].r.ok
        /\ res[u].op = "load" /\ ~res[u].r.ok /\ res[u].h \in removed

\* C2: every handle drawn by create is positive and greater than every handle
\* drawn before it, no handle is returned twice (also when the earlier one
\* has been removed), and 0 is never a key of the registry.
C2_HandlesFresh ==
    [][/\ \A t \in Threads :
            (pc[t] = "idle" /\ pc'[t] = "create_lock") =>
                /\ cur'[t].h > 0
                /\ \A k \in DOMAIN issued : cur'[t].h > k
       /\ \A t \in Threads :
            Completes(t, "create") =>
                /\ res'[t].h > 0
                /\ res'[t].h \notin returned
                /\ res'[t].h \notin removed
       /\ 0 \notin DOMAIN FFI_OBJECTS']_vars

C2_Witness ==
    \E t \in Threads :
        /\ res[t].op = "create"
        /\ \E k \in removed : k < res[t].h

\* C3: under every interleaving the registry operations are atomic: a load
\* returns the complete object stored by create or the Input error, never a
\* partial or another object; at most one thread is inside the registry;
\* concurrent creates hold different handles and every entry visible when the
\* lock is free is the object of the create that drew its handle.
C3_Atomic ==
    /\ \A t \in Threads :
        (res[t].op \in {"load", "opt_load"} /\ res[t].h # 0) =>
            IF res[t].r.ok
            THEN /\ res[t].r.val \in Objects
                 /\ res[t].h \in DOMAIN issued
                 /\ res[t].r.val = issued[res[t].h]
            ELSE res[t].r.err = InvalidHandle
    /\ \A t, u \in Threads :
        (t # u /\ cur[t].op = "create" /\ cur[u].op = "create") =>
            cur[t].h # cur[u].h
    /\ \A t, u \in Threads :
        (t # u /\ res[t].op = "create" /\ res[u].op = "create") =>
            res[t].h # res[u].h
    /\ {t \in Threads : pc[t] \in {"create_store", "load_clone"}}
            = {t \in Threads : lock = t}
    /\ lock = NoThread =>
        \A h \in DOMAIN FFI_OBJECTS :
            h \in DOMAIN issued /\ FFI_OBJECTS[h] = issued[h]

C3_Witness ==
    \E t, u \in Threads :
        /\ t # u
        /\ res[t].op = "load" /\ res[t].r.ok
        /\ res[u].op = "remove" /\ res[u].r.ok /\ res[u].h = res[t].h

\* C4: cast_ref::<U> on a loaded object succeeds exactly when the object was
\* created with type U, fails with an Input error otherwise, and leaves the
\* registry as it was.
C4_CastIffType ==
    [][\A t \in Threads :
        CastStep(t) =>
            LET h == res'[t].h
                r == res'[t].r
            IN  /\ FFI_OBJECTS' = FFI_OBJECTS
                /\ r.ok <=> issued[h].vtable = res'[t].ty
                /\ r.ok => r.val = issued[h]
                /\ ~r.ok => r.err.kind = "Input"]_vars

C4_Witness ==
    \E t, u \in Threads :
        /\ res[t].op = "cast" /\ res[t].r.ok
        /\ res[u].op = "cast" /\ ~res[u].r.ok

\* C5: opt_load(0) is Ok(None) and does not touch the lock or the registry;
\* opt_load(h) for h # 0 is what load(h) gives on the same registry.
C5_OptLoad ==
    [][\A t \in Threads :
        Completes(t, "opt_load") =>
            LET h == res'[t].h
                r == res'[t].r
            IN  /\ h = 0 => /\ r = Ok(NoObject)
                            /\ pc[t] = "idle"
                            /\ lock' = lock
                            /\ FFI_OBJECTS' = FFI_OBJECTS
                /\ h # 0 => r = load(FFI_OBJECTS, h)]_vars

C5_Witness ==
    \E t, u \in Threads :
        /\ res[t].op = "opt_load" /\ res[t].h = 0
        /\ res[u].op = "opt_load" /\ res[u].h # 0 /\ res[u].r.ok
        /\ \E k \in Handles \ {0} : k \notin DOMAIN FFI_OBJECTS

\* C6: credx_object_free reports no error; it removes the entry of its handle
\* when there is one and changes nothing else, so that on a handle that is
\* not in the registry (zero, never created, already freed) it changes
\* nothing.
C6_FreeFrame ==
    [][\A t \in Threads :
        Completes(t, "free") =>
            LET h == res'[t].h IN
                /\ res'[t].r = Ok(NoObject)
                /\ DOMAIN FFI_OBJECTS' = (DOMAIN FFI_OBJECTS) \ {h}
                /\ \A k \in DOMAIN FFI_OBJECTS' :
                        FFI_OBJECTS'[k] = FFI_OBJECTS[k]
                /\ h \notin DOMAIN FFI_OBJECTS =>
                        FFI_OBJECTS' = FFI_OBJECTS]_vars

C6_Witness ==
    \E t, u \in Threads :
        /\ t # u
        /\ res[t].op = "free" /\ res[u].op = "free"
        /\ res[t].h = res[u].h
        /\ res[t].h \in removed
        /\ DOMAIN FFI_OBJECTS # {}

-----------------------------------------------------------------------------
(* Properties of the entry points under SpecFfi *)

\* C7: an entry point writes through its out-pointers only when it returns
\* Success: after a call that returned an error (or panicked) every cell is
\* as the caller left it, and after a call that returned Success every
\* out-pointer of the entry point has been written.
C7_OutOnlyOnSuccess ==
    /\ ret.code \notin {"-", "running", "Success"} =>
            \A i \in DOMAIN out : out[i] = UnsetCell
    /\ ret.code = "Success" =>
            /\ DOMAIN out = 1 .. OutPointers(ret.op)
            /\ \A i \in DOMAIN out : out[i].set

\* a call of credx_create_credential_request that failed in the service,
\* after its three loads: both cells are as the caller left them
C7_Witness ==
    /\ ret.op = "credx_create_credential_request"
    /\ ret.code = "Unexpected"
    /\ Program(ret.op)[ret.ip].k = "svc"
    /\ out = <<UnsetCell, UnsetCell>>

-----------------------------------------------------------------------------
(* Properties of create_credential_request under SpecReq *)

ReqOk == req.pc = "done" /\ req.result.ok

\* C8: whenever create_credential_request succeeds, the nonce of the returned
\* request equals the nonce of the returned metadata, and it is the nonce
\* new_nonce generated in this call: it was not in use when the call was
\* made, and it is not the offer's nonce.
C8_RequestNonceFresh ==
    ReqOk =>
        LET request == req.result.val.credential_request
            metadata == req.result.val.credential_request_metadata
        IN  /\ request.nonce = metadata.nonce
            /\ request.nonce = req.nonce
            /\ request.nonce \in Nonces \ req.seen
            /\ request.nonce # req.credential_offer.nonce

\* a successful call made when an earlier request's nonce was already in use
\* and was the nonce of the offer
C8_Witness ==
    /\ ReqOk
    /\ Cardinality(req.seen) = 2
    /\ req.credential_offer.nonce \in req.seen

\* C9: whenever create_credential_request succeeds, the request carries the
\* prover_did argument and the offer's cred_def_id (whatever the id of the
\* cred_def argument), the metadata carries link_secret_id as
\* master_secret_name, and blind_credential_secrets was called with the
\* offer's key correctness proof and the offer's nonce; in no run, failed or
\* not, is the nonce generated for the request passed to the blinding.
C9_RequestFields ==
    /\ ReqOk =>
        LET request == req.result.val.credential_request
            metadata == req.result.val.credential_request_metadata
        IN  /\ request.prover_did = req.prover_did
            /\ request.cred_def_id = req.credential_offer.cred_def_id
            /\ metadata.master_secret_name = req.link_secret_id
            /\ Len(req.blind) = 1
            /\ req.blind[1].nonce = req.credential_offer.nonce
            /\ req.blind[1].key_correctness_proof =
                    req.credential_offer.key_correctness_proof
    /\ \A i \in DOMAIN req.blind : req.blind[i].nonce # req.nonce

\* a successful call whose cred_def argument carries another id than the
\* offer names
C9_Witness ==
    /\ ReqOk
    /\ req.cred_def.id # req.credential_offer.cred_def_id
    /\ req.result.val.credential_request.cred_def_id = "creddef:2"
    /\ req.blind[1].nonce # req.result.val.credential_request.nonce

-----------------------------------------------------------------------------
(* Properties of create_presentation under SpecPres *)

PresDone == pres.pc = "done"

\* the collection is empty, and self_attested is absent or an empty map
PresentsNothing ==
    /\ PresentCredentials_is_empty(pres.credentials)
    /\ \/ pres.self_attested = None
       \/ DOMAIN pres.self_attested[1] = {}

\* C10: create_presentation fails with the Input error "No credential
\* mapping or self-attested attributes presented" when the collection of
\* credentials is empty and self_attested is absent or an empty map, and it
\* then has called neither validate nor the proof builder; when the
\* collection or self_attested is not empty the call does not fail with that
\* error, and validate is the first call it makes: no call is ever made for
\* a call that presents nothing.
C10_NothingPresented ==
    /\ (pres.pc \notin {"idle", "check"} /\ PresentsNothing) =>
            /\ PresDone
            /\ pres.result = Err(NothingPresented)
            /\ pres.result.err.kind = "Input"
            /\ trace = << >>
    /\ (pres.pc \notin {"idle", "check"} /\ ~PresentsNothing) =>
            /\ (PresDone /\ ~pres.result.ok) =>
                    pres.result.err.msg # NothingPresented.msg
            /\ pres.pc # "validate" => trace # << >> /\ trace[1].f = "validate"
    /\ pres.pc = "check" => trace = << >>

\* a call with no credentials and an empty map of self-attested attributes
\* has failed
C10_Witness ==
    /\ PresDone
    /\ pres.credentials = << >>
    /\ pres.self_attested = Some(EmptyMap)
    /\ pres.result.err.kind = "Input"
    /\ trace = << >>

\* the calls made on the proof builder to add a sub-proof
SubProofsAdded == {i \in DOMAIN trace : trace[i].f = "add_sub_proof_request"}

\* the referents in use
ReferentNames == {"r1", "r2", "p1"}

\* a referent is in two entries
InTwoEntries(credentials) ==
    \E i, j \in DOMAIN credentials :
        /\ i # j
        /\ \E r \in ReferentNames :
            /\ \/ \E b \in BOOLEAN : <<r, b>> \in credentials[i].requested_attributes
               \/ r \in credentials[i].requested_predicates
            /\ \/ \E b \in BOOLEAN : <<r, b>> \in credentials[j].requested_attributes
               \/ r \in credentials[j].requested_predicates

\* a referent is in the attribute set and in the predicate set of an entry
InBothSets(credentials) ==
    \E i \in DOMAIN credentials : \E r \in ReferentNames, b \in BOOLEAN :
        /\ <<r, b>> \in credentials[i].requested_attributes
        /\ r \in credentials[i].requested_predicates

\* a referent is in the attribute set of an entry with both reveal flags
WithBothFlags(credentials) ==
    \E i \in DOMAIN credentials : \E r \in ReferentNames :
        /\ <<r, TRUE>> \in credentials[i].requested_attributes
        /\ <<r, FALSE>> \in credentials[i].requested_attributes

\* C11: when a referent appears twice in the collection of credentials (in
\* two entries, in the attribute set and the predicate set of one entry, or
\* twice in the attribute set of one entry with different reveal flags),
\* create_presentation does not get past validate: it fails with an Input
\* error, and no sub-proof is ever added to the proof builder.
C11_DuplicateReferent ==
    (\/ InTwoEntries(pres.credentials)
     \/ InBothSets(pres.credentials)
     \/ WithBothFlags(pres.credentials)) =>
        /\ SubProofsAdded = {}
        /\ pres.pc \in {"idle", "check", "validate", "done"}
        /\ PresDone =>
            /\ ~pres.result.ok
            /\ pres.result.err.kind = "Input"
            /\ trace = <<Called("validate", << >>)>>

\* a call has failed whose first entry has referent r1 with both reveal
\* flags and whose second entry has r1 as an attribute and as a predicate
C11_Witness ==
    /\ PresDone
    /\ Len(pres.credentials) = 2
    /\ WithBothFlags(<<pres.credentials[1]>>)
    /\ ~InBothSets(<<pres.credentials[1]>>)
    /\ InBothSets(<<pres.credentials[2]>>)
    /\ ~WithBothFlags(<<pres.credentials[2]>>)
    /\ InTwoEntries(pres.credentials)
    /\ pres.result.err.kind = "Input"
    /\ pres.result.err.msg = "Duplicate referent"

PresOk == PresDone /\ pres.result.ok

\* the entries with a referent, in the order provided
NonEmptyEntries ==
    SelectSeq(pres.credentials,
              LAMBDA present : \/ present.requested_attributes # {}
                               \/ present.requested_predicates # {})

\* the referents a requested_proof records with sub-proof index k
RecordedWith(requested_proof, k) ==
    {r \in ReferentNames :
        \/ /\ r \in DOMAIN requested_proof.revealed_attrs
           /\ requested_proof.revealed_attrs[r].sub_proof_index = k
        \/ /\ r \in DOMAIN requested_proof.revealed_attr_groups
           /\ requested_proof.revealed_attr_groups[r].sub_proof_index = k
        \/ /\ r \in DOMAIN requested_proof.unrevealed_attrs
           /\ requested_proof.unrevealed_attrs[r].sub_proof_index = k
        \/ /\ r \in DOMAIN requested_proof.predicates
           /\ requested_proof.predicates[r].sub_proof_index = k}

\* the referents of an entry
ReferentsOf(present) ==
    {a[1] : a \in present.requested_attributes}
        \cup present.requested_predicates

\* the sub-proof indices a requested_proof stores
StoredIndices(requested_proof) ==
    {requested_proof.revealed_attrs[r].sub_proof_index :
        r \in DOMAIN requested_proof.revealed_attrs}
    \cup {requested_proof.revealed_attr_groups[r].sub_proof_index :
        r \in DOMAIN requested_proof.revealed_attr_groups}
    \cup {requested_proof.unrevealed_attrs[r].sub_proof_index :
        r \in DOMAIN requested_proof.unrevealed_attrs}
    \cup {requested_proof.predicates[r].sub_proof_index :
        r \in DOMAIN requested_proof.predicates}

\* C12: when create_presentation succeeds, identifiers has one element per
\* entry with a non-empty attribute or predicate set, in the order of the
\* entries, and as many sub-proofs were added; every sub_proof_index stored
\* in requested_proof is below the length of identifiers; the referents
\* recorded with sub_proof_index k are referents of the k-th such entry
\* (counting from 0), and identifiers[k] has the schema id, cred-def id,
\* rev-reg id and timestamp of that entry.
C12_IdentifiersMatchSubProofs ==
    PresOk =>
        LET identifiers == pres.result.val.identifiers
            requested_proof == pres.result.val.requested_proof
        IN  /\ Len(identifiers) = Len(NonEmptyEntries)
            /\ Cardinality(SubProofsAdded) = Len(identifiers)
            /\ \A k \in StoredIndices(requested_proof) :
                    k \in 0 .. Len(identifiers) - 1
            /\ \A k \in 0 .. Len(identifiers) - 1 :
                LET present == NonEmptyEntries[k + 1]
                    identifier == identifiers[k + 1]
                IN  /\ RecordedWith(requested_proof, k)
                            \subseteq ReferentsOf(present)
                    /\ identifier.schema_id.id = present.cred.schema_id.id
                    /\ identifier.cred_def_id.id = present.cred.cred_def_id.id
                    /\ Len(identifier.rev_reg_id) = Len(present.cred.rev_reg_id)
                    /\ \A i \in DOMAIN identifier.rev_reg_id :
                            identifier.rev_reg_id[i].id
                                = present.cred.rev_reg_id[i].id
                    /\ identifier.timestamp = present.timestamp

\* a call has succeeded whose first entry has no referent and whose second
\* entry has one
C12_Witness ==
    /\ PresOk
    /\ Len(pres.credentials) = 2
    /\ ReferentsOf(pres.credentials[1]) = {}
    /\ ReferentsOf(pres.credentials[2]) # {}
    /\ Len(pres.result.val.identifiers) = 1
    /\ pres.result.val.identifiers[1].timestamp = pres.credentials[2].timestamp
    /\ pres.credentials[2].timestamp # pres.credentials[1].timestamp
    /\ StoredIndices(pres.result.val.requested_proof) = {0}

\* an identifier in unqualified form
IsUnqualified(i) == i.prefix = ""

\* C13: in a presentation made for a V1 request every Identifier has
\* schema_id, cred_def_id and, when present, rev_reg_id in unqualified form,
\* with the method-specific part of the credential's ids; made for a V2
\* request it has exactly the three ids of the credential.  In both cases
\* rev_reg_id is absent exactly when the credential has none and timestamp
\* is the timestamp of the entry.
C13_IdentifierQualification ==
    PresOk =>
        \A k \in DOMAIN pres.result.val.identifiers :
            LET identifier == pres.result.val.identifiers[k]
                present == NonEmptyEntries[k]
                credential == present.cred
            IN  /\ pres.pres_req.ver = "V1" =>
                    /\ IsUnqualified(identifier.schema_id)
                    /\ identifier.schema_id.id = credential.schema_id.id
                    /\ IsUnqualified(identifier.cred_def_id)
                    /\ identifier.cred_def_id.id = credential.cred_def_id.id
                    /\ \A i \in DOMAIN identifier.rev_reg_id :
                        /\ IsUnqualified(identifier.rev_reg_id[i])
                        /\ identifier.rev_reg_id[i].id
                                = credential.rev_reg_id[i].id
                /\ pres.pres_req.ver = "V2" =>
                    /\ identifier.schema_id = credential.schema_id
                    /\ identifier.cred_def_id = credential.cred_def_id
                    /\ identifier.rev_reg_id = credential.rev_reg_id
                /\ (identifier.rev_reg_id = None) = (credential.rev_reg_id = None)
                /\ identifier.timestamp = present.timestamp

\* a presentation for a V1 request has an Identifier of a credential with
\* qualified schema and cred-def ids and no rev-reg id, and one of a
\* credential with a qualified rev-reg id
C13_Witness ==
    /\ PresOk
    /\ pres.pres_req.ver = "V1"
    /\ Len(pres.result.val.identifiers) = 2
    /\ \E k \in {1, 2} :
        /\ ~IsUnqualified(NonEmptyEntries[k].cred.schema_id)
        /\ ~IsUnqualified(NonEmptyEntries[k].cred.cred_def_id)
        /\ IsUnqualified(pres.result.val.identifiers[k].schema_id)
        /\ pres.result.val.identifiers[k].rev_reg_id = None
    /\ \E k \in {1, 2} :
        /\ NonEmptyEntries[k].cred.rev_reg_id # None
        /\ ~IsUnqualified(NonEmptyEntries[k].cred.rev_reg_id[1])
        /\ IsUnqualified(pres.result.val.identifiers[k].rev_reg_id[1])

\* the referents of the request that an entry reveals under a single name,
\* reveals under a group of names, and the referents it does not reveal
RevealedByName(present) ==
    {a[1] : a \in {x \in present.requested_attributes :
        /\ x[2]
        /\ x[1] \in DOMAIN pres.pres_req.payload.requested_attributes
        /\ pres.pres_req.payload.requested_attributes[x[1]].name # None}}
RevealedByNames(present) ==
    {a[1] : a \in {x \in present.requested_attributes :
        /\ x[2]
        /\ x[1] \in DOMAIN pres.pres_req.payload.requested_attributes
        /\ pres.pres_req.payload.requested_attributes[x[1]].name = None
        /\ pres.pres_req.payload.requested_attributes[x[1]].names # None}}
NotRevealed(present) ==
    {a[1] : a \in {x \in present.requested_attributes : ~x[2]}}

\* v is {raw, encoded} of a value of the credential whose normalized key is
\* the normalized name
ValueOf(credential, name, v) ==
    \E key \in DOMAIN credential.values :
        /\ attr_common_view(key) = attr_common_view(name)
        /\ v.raw = credential.values[key].raw
        /\ v.encoded = credential.values[key].encoded

\* C14: once the entries with sub-proof indices 0 .. n-1 are processed, the
\* tables of requested_proof hold exactly this: for the entry with index k,
\* each referent revealed under a single name is in revealed_attrs with k
\* and the raw and encoded value the credential has under that name up to
\* normalization; each referent revealed under names is in
\* revealed_attr_groups with k and one such value per listed name; each
\* unrevealed referent is in unrevealed_attrs with k; each predicate
\* referent is in predicates with k.  What an earlier entry wrote is still
\* there when a later entry has been processed.
C14_RequestedProofUpdates ==
    (pres.pc = "loop" \/ PresOk) =>
        LET requested_proof == pres.requested_proof
            n == pres.sub_proof_index
            entry(k) == NonEmptyEntries[k + 1]
            request == pres.pres_req.payload.requested_attributes
        IN  /\ PresOk => /\ pres.result.val.requested_proof = requested_proof
                         /\ n = Len(NonEmptyEntries)
            /\ DOMAIN requested_proof.revealed_attrs
                    = UNION {RevealedByName(entry(k)) : k \in 0 .. n - 1}
            /\ DOMAIN requested_proof.revealed_attr_groups
                    = UNION {RevealedByNames(entry(k)) : k \in 0 .. n - 1}
            /\ DOMAIN requested_proof.unrevealed_attrs
                    = UNION {NotRevealed(entry(k)) : k \in 0 .. n - 1}
            /\ DOMAIN requested_proof.predicates
                    = UNION {entry(k).requested_predicates : k \in 0 .. n - 1}
            /\ \A k \in 0 .. n - 1 :
                /\ \A r \in RevealedByName(entry(k)) :
                    /\ requested_proof.revealed_attrs[r].sub_proof_index = k
                    /\ ValueOf(entry(k).cred, request[r].name[1],
                               requested_proof.revealed_attrs[r])
                /\ \A r \in RevealedByNames(entry(k)) :
                    LET group == requested_proof.revealed_attr_groups[r]
                        names == request[r].names[1]
                    IN  /\ group.sub_proof_index = k
                        /\ DOMAIN group.values
                                = {names[i] : i \in DOMAIN names}
                        /\ \A name \in DOMAIN group.values :
                            ValueOf(entry(k).cred, name, group.values[name])
                /\ \A r \in NotRevealed(entry(k)) :
                    requested_proof.unrevealed_attrs[r]
                        = [sub_proof_index |-> k]
                /\ \A r \in entry(k).requested_predicates :
                    requested_proof.predicates[r] = [sub_proof_index |-> k]

\* a presentation whose revealed_attrs has the value of one credential under
\* sub-proof index 0 and of another attribute under index 1, and whose
\* predicates has a referent under index 0
C14_Witness ==
    /\ PresOk
    /\ DOMAIN pres.result.val.requested_proof.revealed_attrs = {"r1", "r2"}
    /\ pres.result.val.requested_proof.revealed_attrs["r1"]
            = [sub_proof_index |-> 0, raw |-> "25", encoded |-> "e25"]
    /\ pres.result.val.requested_proof.revealed_attrs["r2"]
            = [sub_proof_index |-> 1, raw |-> "7", encoded |-> "e7"]
    /\ pres.result.val.requested_proof.predicates
            = ("p1" :> [sub_proof_index |-> 0])

\* the sub-proof requests added to the proof builder, in the order added
SubProofRequests ==
    LET added == SelectSeq(trace, LAMBDA c : c.f = "add_sub_proof_request")
    IN  [k \in DOMAIN added |-> added[k].arg.sub_proof_request]

\* the normalized names an entry reveals
RevealedNames(present) ==
    LET request == pres.pres_req.payload.requested_attributes
    IN  {attr_common_view(request[r].name[1]) : r \in RevealedByName(present)}
        \cup UNION {{attr_common_view(request[r].names[1][i]) :
                        i \in DOMAIN request[r].names[1]} :
                    r \in RevealedByNames(present)}

HasReferent(i) == ReferentsOf(pres.credentials[i]) # {}

\* the schema, the credential definition of the entry at position i is not
\* among those provided
SchemaMissing(i) ==
    pres.credentials[i].cred.schema_id \notin DOMAIN pres.schemas
CredDefMissing(i) ==
    pres.credentials[i].cred.cred_def_id \notin DOMAIN pres.cred_defs

\* C16: create_presentation never gets past an entry that has a referent
\* and whose credential's schema_id is not a key of schemas or whose
\* cred_def_id is not a key of cred_defs, so it returns no presentation; when
\* it has failed at such an entry the error is the Input error "Schema not
\* provided for ID" with that schema_id if the schema is missing, and else
\* the Input error "Credential Definition not provided for ID" with that
\* cred_def_id, and no sub-proof was added for the entry.  These two errors
\* are raised for no other entry: an entry without referents is passed over
\* whatever its ids.  (An error raised before the entry is reached, by
\* validate, by a CL primitive or for an earlier entry, is the one returned.)
C16_LookupMiss ==
    /\ \A i \in DOMAIN pres.credentials :
        (HasReferent(i) /\ (SchemaMissing(i) \/ CredDefMissing(i))) =>
            /\ pres.entry <= i
            /\ ~PresOk
            /\ (PresDone /\ pres.entry = i) =>
                /\ pres.result =
                    IF SchemaMissing(i)
                    THEN Err([kind |-> "Input",
                              msg |-> "Schema not provided for ID",
                              arg |-> pres.credentials[i].cred.schema_id])
                    ELSE Err([kind |-> "Input",
                              msg |-> "Credential Definition not provided for ID",
                              arg |-> pres.credentials[i].cred.cred_def_id])
                /\ Cardinality(SubProofsAdded)
                        = Cardinality({j \in 1 .. i - 1 : HasReferent(j)})
    /\ (/\ PresDone
        /\ ~pres.result.ok
        /\ pres.result.err.msg \in
                {"Schema not provided for ID",
                 "Credential Definition not provided for ID"}) =>
            /\ pres.entry \in DOMAIN pres.credentials
            /\ HasReferent(pres.entry)
            /\ SchemaMissing(pres.entry) \/ CredDefMissing(pres.entry)

\* a call has failed at its second entry, whose credential has neither its
\* schema nor its credential definition provided, with the error that names
\* the schema_id; its first entry has the same credential and no referent
C16_Witness ==
    /\ PresDone
    /\ Len(pres.credentials) = 2
    /\ pres.entry = 2
    /\ ~HasReferent(1) /\ SchemaMissing(1) /\ CredDefMissing(1)
    /\ HasReferent(2) /\ SchemaMissing(2) /\ CredDefMissing(2)
    /\ pres.result.err.kind = "Input"
    /\ pres.result.err.msg = "Schema not provided for ID"
    /\ pres.result.err.arg = pres.credentials[2].cred.schema_id

\* the names the entry at position i reveals, by name or in a group, as the
\* request lists them
NamesRevealed(i) ==
    LET request == pres.pres_req.payload.requested_attributes
        present == pres.credentials[i]
    IN  {request[r].name[1] : r \in RevealedByName(present)}
        \cup UNION {{request[r].names[1][n] : n \in DOMAIN request[r].names[1]} :
                    r \in RevealedByNames(present)}

\* those of them for which the credential of the entry has no value
NamesLacking(i) ==
    {name \in NamesRevealed(i) :
        \A key \in DOMAIN pres.credentials[i].cred.values :
            attr_common_view(key) # attr_common_view(name)}

\* C17: create_presentation never gets past an entry that reveals, under a
\* single name or in a group of names, an attribute for which its
\* credential has no value up to normalization, so it returns no
\* presentation; when the sub-proof of such an entry was added and the call
\* has failed at the entry with an error that is not a CL primitive's, the
\* error is the Input error "Credential value not found for attribute" with
\* one of those names, and this error is raised for no other entry.  A
\* failed call returns the error alone: the requested_proof and identifiers
\* it had filled so far are not part of the result.
C17_ValueNotFound ==
    /\ \A i \in DOMAIN pres.credentials :
        NamesLacking(i) # {} =>
            /\ pres.entry <= i
            /\ ~PresOk
            /\ (/\ PresDone
                /\ pres.entry = i
                /\ Cardinality(SubProofsAdded)
                        = Cardinality({j \in 1 .. i : HasReferent(j)})
                /\ pres.result.err.kind # "Unexpected") =>
                    /\ pres.result.err.kind = "Input"
                    /\ pres.result.err.msg
                            = "Credential value not found for attribute"
                    /\ pres.result.err.arg \in NamesLacking(i)
    /\ (/\ PresDone
        /\ ~pres.result.ok
        /\ pres.result.err.msg = "Credential value not found for attribute") =>
            /\ pres.entry \in DOMAIN pres.credentials
            /\ NamesLacking(pres.entry) # {}
    /\ (PresDone /\ ~pres.result.ok) => pres.result = Err(pres.result.err)

\* a call has failed at its second entry, which reveals an attribute its
\* credential lacks, after the first entry was recorded in requested_proof
\* and both entries' identifiers were pushed; nothing of them is returned
C17_Witness ==
    /\ PresDone
    /\ Len(pres.credentials) = 2
    /\ pres.entry = 2
    /\ NamesLacking(1) = {}
    /\ NamesLacking(2) # {}
    /\ pres.result.err.kind = "Input"
    /\ pres.result.err.msg = "Credential value not found for attribute"
    /\ pres.result.err.arg \in NamesLacking(2)
    /\ DOMAIN pres.requested_proof.revealed_attrs # {}
    /\ Len(pres.identifiers) = 2
    /\ pres.result.val = NoObject

-----------------------------------------------------------------------------
(* Properties of the verify entry points under SpecVerify *)

\* C18: credx_verify_presentation and credx_verify_presentation_legacy,
\* given the same arguments on the same registry, have performed the same
\* step last, are at the same step and have the same locals and the same
\* ErrorCode as long as neither has invoked the verifier, so they perform
\* the same loads and checks and return the same error for an error raised
\* before the verifier; one invokes the verifier exactly when the
\* other does, with the same arguments but accept_legacy_revocation, which
\* is FALSE for credx_verify_presentation and TRUE for
\* credx_verify_presentation_legacy.
C18_LegacyDiffersInFlag ==
    /\ (ver.plain.verifier = None) = (ver.legacy.verifier = None)
    /\ ver.plain.verifier = None => ver.plain = ver.legacy
    /\ ver.plain.verifier # None =>
            /\ ver.plain.verifier[1].accept_legacy_revocation = FALSE
            /\ ver.legacy.verifier[1].accept_legacy_revocation = TRUE
            /\ ver.plain.verifier[1] =
                    [ver.legacy.verifier[1] EXCEPT
                        !.accept_legacy_revocation = FALSE]
            /\ \A l \in {"schemas", "cred_defs", "rev_reg_defs", "rev_regs"} :
                    ver.plain[l] = ver.legacy[l]

\* both entry points have loaded a revocation registry definition and an
\* entry for it and invoked the verifier, which has accepted the
\* presentation only with accept_legacy_revocation
C18_Witness ==
    /\ ver.plain.verifier # None
    /\ ver.legacy.verifier # None
    /\ ver.plain.rev_reg_defs = <<TRUE>>
    /\ ver.plain.code = "Success" /\ ver.plain.result = Written(0)
    /\ ver.legacy.code = "Success" /\ ver.legacy.result = Written(1)

-----------------------------------------------------------------------------
(* Properties of create_or_update_revocation_state under SpecRev *)

\* the call made by this step of the caller
RevCalled == rev.pc = "idle" /\ rev'.pc = "done"

\* C19: a call of create_or_update_revocation_state leaves every state its
\* caller holds as it was, the prior state passed in among them, whether
\* the call succeeds or fails; a state it returns has rev_reg derived from
\* the delta and the timestamp of the timestamp argument; its witness is a
\* new witness for rev_reg_idx built from max_cred_num, the
\* issuance-by-default flag and the delta when no prior state is given,
\* and otherwise the prior state's witness with one more update, by the
\* delta.
C19_RevocationStateBuilt ==
    [][RevCalled =>
        LET a == rev'.args
            state == rev'.result.val
        IN /\ rev'.states = rev.states
           /\ rev'.result.ok =>
                /\ state.rev_reg = [accum_of |-> a.rev_reg_delta]
                /\ state.timestamp = a.timestamp
                /\ a.rev_state = None =>
                     state.witness =
                        [rev_reg_idx |-> a.rev_reg_idx,
                         max_cred_num |-> a.revoc_reg_def.max_cred_num,
                         issuance_by_default |->
                            to_bool(a.revoc_reg_def.issuance_type),
                         rev_reg_delta |-> a.rev_reg_delta,
                         updates |-> << >>]
                /\ a.rev_state # None =>
                     LET prior == rev.states[a.rev_state[1]]
                     IN state.witness =
                          [prior.witness EXCEPT !.updates =
                             Append(@, [rev_reg_idx |-> a.rev_reg_idx,
                                        max_cred_num |->
                                            a.revoc_reg_def.max_cred_num,
                                        rev_reg_delta |-> a.rev_reg_delta])]
    ]_vars

\* a call has returned a state built from a prior state that was itself
\* built from nothing, with another delta and at another timestamp
C19_Witness ==
    /\ rev.pc = "done"
    /\ rev.result.ok
    /\ rev.args.rev_state = Some(1)
    /\ rev.states[1].witness.updates = << >>
    /\ rev.states[1].witness.rev_reg_delta = "delta:1"
    /\ rev.states[1].timestamp = 10
    /\ rev.args.rev_reg_delta = "delta:2"
    /\ rev.args.timestamp = 20
    /\ Len(rev.result.val.witness.updates) = 1
    /\ rev.result.val.rev_reg # rev.states[1].rev_reg

\* the credential index a witness was built for and updated for, if it is
\* one index
ForIndex(w, idx) ==
    /\ w.rev_reg_idx = idx
    /\ \A k \in DOMAIN w.updates : w.updates[k].rev_reg_idx = idx

\* the call that has returned was fed the state the caller got last, for
\* the credential index of that state, and has returned a state
FedPrevious ==
    /\ rev.pc = "done"
    /\ rev.result.ok
    /\ rev.states # << >>
    /\ rev.args.rev_state = Some(Len(rev.states))
    /\ ForIndex(rev.states[Len(rev.states)].witness, rev.args.rev_reg_idx)

\* C20 as stated: the state returned by an update has a timestamp greater
\* than or equal to the timestamp of the prior state it was built from.
C20_TimestampNeverDecreases ==
    FedPrevious =>
        rev.result.val.timestamp >= rev.states[Len(rev.states)].timestamp

\* C20: in a sequence of calls for one credential index, each fed the state
\* returned by the previous one, the state returned by an update has a
\* timestamp greater than or equal to the timestamp of the prior state
\* exactly when the timestamp argument of the call is: the timestamp
\* decreases when, and only when, the caller passes an earlier one.
C20_TimestampFollowsArgument ==
    FedPrevious =>
        LET prior == rev.states[Len(rev.states)]
        IN (rev.result.val.timestamp >= prior.timestamp)
              <=> (rev.args.timestamp >= prior.timestamp)

\* an update with a later timestamp has returned a state with a later
\* timestamp than the state it was fed
C20_Witness ==
    /\ FedPrevious
    /\ rev.args.timestamp > rev.states[Len(rev.states)].timestamp
    /\ rev.result.val.timestamp > rev.states[Len(rev.states)].timestamp

-----------------------------------------------------------------------------
(* Properties of the revocation entries of credx_verify_presentation under *)
(* SpecVerify *)

\* the loop over the loaded rev_reg_entries is the step f has just performed
IndexChecked(f) == f.did # None /\ f.did[1].k = "rev_entries_index"

\* the positions of the loaded entries at which the loop cannot go on: the
\* index is not below the number of rev_reg_defs, or the definition or the
\* entry read is not of the type cast to
StopsAt(f) ==
    {k \in DOMAIN f.rev_reg_entries :
        LET e == f.rev_reg_entries[k] IN
            \/ e.idx >= Len(f.rev_reg_defs)
            \/ ~f.rev_reg_defs[e.idx + 1]
            \/ ~e.entry}

FirstStop(f) == CHOOSE k \in StopsAt(f) : \A j \in StopsAt(f) : k <= j

\* C21: in credx_verify_presentation the loop over the loaded revocation
\* entries ends at the first entry it cannot process.  If that entry's
\* def_entry_idx equals the number of rev_reg_defs, the call does not
\* return the Input error of the bounds check but reads rev_reg_defs out
\* of range (and only then); if it is greater, the call returns the Input
\* error; an index below the number is read in range, and when every entry
\* has one and casts, the call goes on.
C21_IndexEqualToLengthIsRead ==
    IndexChecked(ver.plain) =>
        LET f == ver.plain
            n == Len(f.rev_reg_defs)
        IN  IF StopsAt(f) = {}
            THEN /\ Running(f)
                 /\ \A k \in DOMAIN f.rev_reg_entries :
                        f.rev_reg_entries[k].idx < n
            ELSE LET idx == f.rev_reg_entries[FirstStop(f)].idx
                 IN  /\ idx = n <=> f.code = "panic"
                     /\ idx > n => f.code = "Input"
                     /\ idx < n => f.code = "Input"

\* with one rev_reg_def loaded, an entry with def_entry_idx 1 has passed
\* the bounds check and the read of rev_reg_defs[1] was out of range
C21_Witness ==
    /\ IndexChecked(ver.plain)
    /\ Len(ver.plain.rev_reg_defs) = 1
    /\ ver.plain.rev_reg_entries # << >>
    /\ ver.plain.rev_reg_entries[1].idx = 1
    /\ ver.plain.code = "panic"

-----------------------------------------------------------------------------
(* Properties of the helpers of create_presentation under SpecUnit *)

Prepared == unit.fn = "prepare_credential_for_proving"

\* the referents of the call that the request does not have
MissingAttrReferents ==
    {unit.args.requested_attributes[i][1] :
        i \in DOMAIN unit.args.requested_attributes}
            \ DOMAIN unit.args.pres_req.requested_attributes

MissingPredReferents ==
    {unit.args.requested_predicates[i] :
        i \in DOMAIN unit.args.requested_predicates}
            \ DOMAIN unit.args.pres_req.requested_predicates

\* C22: prepare_credential_for_proving fails, with an Input error, exactly
\* when an attribute referent it is given is not in the request's
\* requested_attributes or a predicate referent is not in its
\* requested_predicates; otherwise it returns exactly one
\* RequestedAttributeInfo per (referent, reveal) pair and exactly one
\* RequestedPredicateInfo per predicate referent, and nothing else, each
\* with the info the request stores under the referent.
C22_OneInfoPerReferent ==
    Prepared =>
        LET a == unit.args
            r == unit.result
            pairs == {a.requested_attributes[i] :
                        i \in DOMAIN a.requested_attributes}
            referents == {a.requested_predicates[i] :
                            i \in DOMAIN a.requested_predicates}
        IN  /\ r.ok <=> MissingAttrReferents = {} /\ MissingPredReferents = {}
            /\ ~r.ok => r.err.kind = "Input"
            /\ r.ok =>
                /\ Len(r.val.attrs) = Cardinality(pairs)
                /\ Len(r.val.preds) = Cardinality(referents)
                /\ \A pair \in pairs :
                    \E i \in DOMAIN r.val.attrs :
                        r.val.attrs[i] =
                            [attr_referent |-> pair[1],
                             attr_info |->
                                a.pres_req.requested_attributes[pair[1]],
                             revealed |-> pair[2]]
                /\ \A referent \in referents :
                    \E i \in DOMAIN r.val.preds :
                        r.val.preds[i] =
                            [predicate_referent |-> referent,
                             predicate_info |->
                                a.pres_req.requested_predicates[referent]]

\* a call with two pairs of one referent and a predicate has returned three
\* infos
C22_Witness ==
    /\ Prepared
    /\ unit.result.ok
    /\ Len(unit.args.requested_attributes) = 2
    /\ unit.args.requested_attributes[1][1] = unit.args.requested_attributes[2][1]
    /\ Len(unit.result.val.attrs) = 2
    /\ Len(unit.result.val.preds) = 1

GotValues == unit.fn = "get_credential_values_for_attribute"

\* the names that are one attribute: they differ in case and in whitespace
\* only
SameAttribute ==
    {{<<"a", "g">>, <<"A", "g">>, <<" ", "a", " ", "g", " ">>,
      <<" ", "a", "g", " ">>},
     {<<"a">>}, {<<"g">>}, {<<"a", "g", "e">>}}

\* the keys of the credential's values that are the attribute requested
KeysOf(credential_attrs, requested_attr) ==
    {k \in DOMAIN credential_attrs :
        \E names \in SameAttribute : k \in names /\ requested_attr \in names}

\* C23: get_credential_values_for_attribute returns a value if and only if
\* some key of the credential's values is the requested name up to case and
\* whitespace, and the value returned is the one stored under such a key;
\* with one such key, the result is the same for every spelling of the
\* requested name.
C23_ValueByNormalizedName ==
    GotValues =>
        LET a == unit.args
            keys == KeysOf(a.credential_attrs, a.requested_attr)
        IN  /\ unit.result # None <=> keys # {}
            /\ unit.result # None =>
                \E k \in keys : unit.result = Some(a.credential_attrs[k])
            /\ \A k \in keys :
                keys = {k} => unit.result = Some(a.credential_attrs[k])

\* the value stored under " ag " was found for "Ag", among the values of
\* two attributes
C23_Witness ==
    /\ GotValues
    /\ unit.args.requested_attr = <<"A", "g">>
    /\ DOMAIN unit.args.credential_attrs = {<<" ", "a", "g", " ">>, <<"a">>}
    /\ unit.args.credential_attrs[<<"a">>] = [raw |-> "25", encoded |-> "e25"]
    /\ unit.result = Some([raw |-> "31", encoded |-> "e31"])

-----------------------------------------------------------------------------
(* Properties of the calls to the proof builder under SpecPres *)

\* the calls the proof builder has received, in the order received
BuilderCalls == SelectSeq(trace, LAMBDA c : c.f # "validate")

\* the calls so far are the first calls of: add_common_attribute with
\* "master_secret", one add_sub_proof_request per non-empty entry in the
\* order provided, with the signature, the values and the revocation state
\* of the entry, and finalize with the nonce of the request; after Ok they
\* are all of them
BuilderCallsInOrder ==
    LET calls == BuilderCalls
        n == Len(NonEmptyEntries)
    IN  /\ Len(calls) <= n + 2
        /\ \A i \in DOMAIN calls :
            /\ i = 1 =>
                calls[i] = Called("add_common_attribute", "master_secret")
            /\ (1 < i /\ i <= n + 1) =>
                /\ calls[i].f = "add_sub_proof_request"
                /\ calls[i].arg.signature = NonEmptyEntries[i - 1].cred.signature
                /\ calls[i].arg.credential_values =
                        NonEmptyEntries[i - 1].cred.values
                /\ calls[i].arg.rev_state = NonEmptyEntries[i - 1].rev_state
            /\ i = n + 2 =>
                calls[i] = Called("finalize", pres.pres_req.payload.nonce)
        /\ PresOk => Len(calls) = n + 2

FinalizeCalled == \E i \in DOMAIN trace : trace[i].f = "finalize"

\* C24 as stated: the calls are in that order, and finalize is never called
\* on a run that returns an error.
C24_FinalizeOnlyOnSuccess ==
    /\ BuilderCallsInOrder
    /\ (PresDone /\ ~pres.result.ok) => ~FinalizeCalled

\* C24: in every run of create_presentation the proof builder receives its
\* calls in this order: add_common_attribute("master_secret") once, before
\* any sub-proof request, then one add_sub_proof_request per non-empty entry
\* in the order provided, then finalize once, with the nonce of the request,
\* after the last entry; a run that returns an error has not called
\* finalize, unless the error is the one finalize has returned.
C24_BuilderCallOrder ==
    /\ BuilderCallsInOrder
    /\ (PresDone /\ ~pres.result.ok /\ FinalizeCalled) =>
            pres.result.err = ClError("finalize")

\* a presentation of two credentials has been returned: four calls
C24_Witness ==
    /\ PresOk
    /\ Len(NonEmptyEntries) = 2
    /\ NonEmptyEntries[1].cred.signature # NonEmptyEntries[2].cred.signature
    /\ Len(BuilderCalls) = 4
    /\ BuilderCalls[4].f = "finalize"

-----------------------------------------------------------------------------
(* Properties of credentials_prove under SpecFfi *)

\* no step of credx_create_presentation has failed: it returns Success
PresentationCreated ==
    /\ call.op = "credx_create_presentation"
    /\ call.ip = Len(credx_create_presentation) + 1

\* C25: in credx_create_presentation every item of credentials_prove is
\* attached to the credential entry at its entry_idx or makes the call fail:
\* when the call returns Success, no item has been passed over, whether its
\* entry_idx is negative or not below the number of entries.
C25_NoItemIgnored == PresentationCreated => call.not_added = {}

-----------------------------------------------------------------------------
(* Properties of the registry across an entry point under SpecFfi *)

\* the call in progress returns with this step
FfiReturns == call.op # "-" /\ call'.op = "-"

\* C26: an entry point that returns an error leaves the registry exactly as
\* it was when the call was made; credx_create_credential_request and
\* credx_create_revocation_registry leave no object of theirs in it when
\* they return an error, and when they return Success the two and the three
\* handles they have written are pairwise distinct, were not in the registry
\* before, and are in it now, the rest of the registry being as before.
C26_ErrorLeavesRegistry ==
    [][FfiReturns =>
        /\ ret'.code # "Success" => FFI_OBJECTS' = call.before
        /\ (/\ ret'.code = "Success"
            /\ call.op \in {"credx_create_credential_request",
                            "credx_create_revocation_registry"}) =>
                LET handles == {out'[i].v : i \in DOMAIN out'} IN
                    /\ Cardinality(handles) = Creates(call.op)
                    /\ Creates(call.op) =
                            IF call.op = "credx_create_credential_request"
                            THEN 2 ELSE 3
                    /\ handles \cap DOMAIN call.before = {}
                    /\ DOMAIN FFI_OBJECTS' = DOMAIN call.before \cup handles
                    /\ \A h \in DOMAIN call.before :
                            FFI_OBJECTS'[h] = call.before[h]
    ]_vars

\* credx_create_revocation_registry has returned the error of the service,
\* made after the credential definition was loaded from the registry: the
\* registry holds that object and nothing of the call
C26_Witness ==
    /\ ret.op = "credx_create_revocation_registry"
    /\ ret.code = "Unexpected"
    /\ Program(ret.op)[ret.ip].k = "svc"
    /\ Cardinality(DOMAIN FFI_OBJECTS) = 1
    /\ \A h \in DOMAIN FFI_OBJECTS :
            FFI_OBJECTS[h].vtable = "CredentialDefinition"


\* the referents the entries of the call supply
Supplied == UNION {ReferentsOf(pres.credentials[i]) : i \in DOMAIN pres.credentials}

\* the tables of a requested_proof that hold referent r
TablesWith(requested_proof, r) ==
    {t \in {"revealed_attrs", "revealed_attr_groups", "unrevealed_attrs",
            "predicates"} :
        r \in DOMAIN (CASE t = "revealed_attrs" ->
                                requested_proof.revealed_attrs
                        [] t = "revealed_attr_groups" ->
                                requested_proof.revealed_attr_groups
                        [] t = "unrevealed_attrs" ->
                                requested_proof.unrevealed_attrs
                        [] t = "predicates" -> requested_proof.predicates)}

\* the supplied attribute referents that are revealed and whose entry in the
\* request has neither name nor names
RevealedUnnamed ==
    {r \in Supplied :
        /\ \E i \in DOMAIN pres.credentials :
                <<r, TRUE>> \in pres.credentials[i].requested_attributes
        /\ r \in DOMAIN pres.pres_req.payload.requested_attributes
        /\ pres.pres_req.payload.requested_attributes[r].name = None
        /\ pres.pres_req.payload.requested_attributes[r].names = None}

\* C27: whenever create_presentation succeeds, every referent supplied in
\* the entries is in exactly one of the tables revealed_attrs,
\* revealed_attr_groups, unrevealed_attrs and predicates of requested_proof,
\* and no table holds a referent that was not supplied, also when the
\* request entry of a revealed attribute sets neither name nor names or sets
\* both.
C27_ReferentInOneTable ==
    PresOk =>
        LET requested_proof == pres.result.val.requested_proof IN
            /\ \A r \in Supplied :
                    Cardinality(TablesWith(requested_proof, r)) = 1
            /\ \A r \in ReferentNames :
                    TablesWith(requested_proof, r) # {} => r \in Supplied

\* what the code does: a supplied referent is in no table when it is a
\* revealed attribute whose request entry has neither name nor names, and in
\* exactly one table otherwise
ReferentInOneTableUnlessUnnamed ==
    PresOk =>
        LET requested_proof == pres.result.val.requested_proof IN
            /\ \A r \in Supplied :
                    Cardinality(TablesWith(requested_proof, r))
                        = IF r \in RevealedUnnamed THEN 0 ELSE 1
            /\ \A r \in ReferentNames :
                    TablesWith(requested_proof, r) # {} => r \in Supplied

\* a presentation made for a revealed referent whose request entry has both
\* name and names
RevealedWithBoth ==
    /\ PresOk
    /\ \E r \in Supplied :
        /\ r \in DOMAIN pres.pres_req.payload.requested_attributes
        /\ pres.pres_req.payload.requested_attributes[r].name # None
        /\ pres.pres_req.payload.requested_attributes[r].names # None
        /\ TablesWith(pres.result.val.requested_proof, r) = {"revealed_attrs"}


\* thread t has an object it obtained by load or opt_load of a handle, and
\* has not yet let go of it
HoldsLoaded(t) ==
    /\ pc[t] = "done"
    /\ \/ res[t].op = "cast"
       \/ /\ res[t].op \in {"load", "opt_load"}
          /\ res[t].r.ok
          /\ res[t].r.val # NoObject

\* C28: an object obtained by load(h) is valid and unchanged for as long as
\* the caller holds it, whatever other threads remove or create meanwhile:
\* the holder does not have the registry lock, the allocation behind its
\* pointer has an owner and the value create was given, the pointer it holds
\* is the one create stored, and a cast it makes answers for that object.
C28_LoadedObjectStaysValid ==
    \A t \in Threads :
        HoldsLoaded(t) =>
            LET h == res[t].h IN
                /\ lock # t
                /\ h \in DOMAIN arcs
                /\ arcs[h].strong >= 1
                /\ arcs[h].value = issued[h]
                /\ res[t].op \in {"load", "opt_load"} =>
                        res[t].r.val = issued[h]
                /\ res[t].op = "cast" =>
                        res[t].r = cast_ref(issued[h], res[t].ty)

\* a thread holds the object it loaded under handle 1 after handle 1 was
\* removed and handle 2 was created, removed and freed by the other thread
C28_Witness ==
    \E t \in Threads :
        /\ HoldsLoaded(t)
        /\ res[t].op = "load"
        /\ res[t].h = 1
        /\ removed = {1, 2}
        /\ FFI_OBJECTS = << >>
        /\ arcs[1].strong = 1
        /\ arcs[2] = [strong |-> 0, value |-> Freed]
        /\ \A u \in Threads \ {t} : pc[u] = "idle"

====
